---- MODULE Spec2Model ----
(***************************************************************************)
(* Read-through cache layer of data_pull_tools.caching: one source file,   *)
(* one cache entry, one Cacher and the five CacheBehavior strategies.      *)
(*                                                                         *)
(* A dataset is abstracted to a number in 0..DataMod-1 and a processor to  *)
(* a function over such numbers: "inc" is not idempotent and does not      *)
(* commute with "dbl", so the number of times and the order in which a     *)
(* pipeline runs show in the result.  A file is a record of existence,     *)
(* content and modification time; modification times are readings of a     *)
(* clock that may or may not advance between two file operations.          *)
(*                                                                         *)
(* Spec runs the strategies against a changing source; HitSpec evaluates   *)
(* cache_hit / cache_miss over arbitrary pairs of files.                   *)
(*                                                                         *)
(* CollectSpec runs ExcelCollector.collect over a root_dir that workbooks  *)
(* are added to, CollectFailSpec over workbooks that may fail to read.     *)
(* An aggregate is the set of its rows, each tagged with its workbook.     *)
(*                                                                         *)
(* ManagerSpec constructs a CacheManager and assigns to its properties,    *)
(* ClearSpec fills and clears its cache directory, ResolveSpec calls       *)
(* RESOLVE_TO_ROOT repeatedly.  A path is a sequence of components and the *)
(* directory tree a record of directories, files and unremovable files.    *)
(*                                                                         *)
(* MapSpec evaluates CachedExcelReader._map_paths over workbook names and   *)
(* sheet selectors written as text, ReadSpec reads one workbook sheet by    *)
(* sheet and all sheets at once.  PipelineSpec constructs a Cacher,         *)
(* registers processors and runs its pipelines.  WriteSpec lets the write   *)
(* of a cache file fail, before or after the file is opened.  PoolSpec is   *)
(* one collect() with its worker processes, each a test of its cache file   *)
(* followed by a read or a write.                                           *)
(***************************************************************************)
EXTENDS Integers, Sequences, FiniteSets, TLC

\* ---- bounds -------------------------------------------------------------
MaxTime == 2     \* clock readings 1..MaxTime
MaxProcs == 1    \* processors registered on one cacher, pre and post together
DataMod == 2     \* number of distinct datasets
MaxCacheFiles == 2   \* files written into cache directories

\* ---- value domains ------------------------------------------------------
Dataset == 0 .. (DataMod - 1)
NoData == 0
Processors == {"inc", "dbl"}
ReadErrors == {"IOError", "ParseError"}
ReaderOutcomes == {"ok"} \cup ReadErrors
WriteOutcomes == {"ok", "rejected"}
\* A write can also fail after the file was opened for writing.
WriteFailures == {"rejected", "truncated"}
\* What a file holds that was opened for writing and not written: no dataset.
Truncated == 0 - 1
Strategies ==
    {"CHECK_CACHE", "FALLBACK_TO_CACHE", "FORCE_CACHE_UPDATE", "SKIP_CACHE", "FROM_CACHE"}

AbsentFile == [exists |-> FALSE, data |-> NoData, mtime |-> 0]

VARIABLES
    now,        \* filesystem clock
    source,     \* input_file: [exists, data, mtime]
    cache,      \* cache_file: [exists, data, mtime]
    cacher,     \* Cacher: [pre |-> _pre_process, post |-> _post_process]
    call,       \* record of the most recent strategy call
    since,      \* what was modified since the most recent call: "source", "cacher"
    probe,      \* what the last step was: a cache_hit / cache_miss evaluation with its
                \* arguments and results, a strategy call, or neither
    entries,    \* ExcelCollector: root_dir.glob(glob_pattern), name -> [exists, data, mtime]
    entry_cache,\* the per-entry cache files of the collector's reader, name -> file
    output,     \* the aggregate cache file at output_path: [exists, data, mtime]
    collector,  \* the ExcelCollector: [cacher, _out_st_mtime]
    collected,  \* record of the most recent collect() call
    disk,       \* CacheManager: the directory tree the manager works on
    manager,    \* the CacheManager: [_root_dir, _raw_cache_dir, _cache_resolver, _cache_dir]
    returned,   \* record of the most recent CacheManager / resolver call
    mapped,     \* CachedExcelReader: record of the most recent _map_paths call
    workbook,   \* the workbook on disk: [exists, path, mtime, sheets]
    excel_reader, \* the CachedExcelReader: [root_dir, cache_dir]
    sheet_cache,\* the files of the reader's cache_dir, name -> [exists, data, mtime]
    reading,    \* record of the most recent CachedExcelReader.read_excel call
    applied,    \* a Cacher's construction and registrations, and its most recent
                \* pre_process / post_process call
    pool        \* one ExcelCollector.collect() with its worker processes

strategyVars == <<source, cache, cacher, call, since, probe>>
collectorVars == <<entries, entry_cache, output, collector, collected>>
managerVars == <<disk, manager, returned>>

readerVars == <<mapped, workbook, excel_reader, sheet_cache, reading, applied, pool>>

vars == <<now, strategyVars, collectorVars, managerVars, readerVars>>

\* ---- Cacher -------------------------------------------------------------
\* A processor is a pure function over datasets.
Apply(p, df) ==
    IF p = "inc" THEN (df + 1) % DataMod ELSE (df * 2) % DataMod

RECURSIVE ApplyAll(_, _)
ApplyAll(procs, df) ==
    IF procs = <<>> THEN df ELSE ApplyAll(Tail(procs), Apply(Head(procs), df))

\* Cacher.pre_process: None returns df, otherwise the processors run in list order.
pre_process(c, df) == ApplyAll(c.pre, df)

\* Cacher.post_process
post_process(c, df) == ApplyAll(c.post, df)

\* Variant that puts a registered processor in front of the list.
register_pre_process_first(c, p) == [c EXCEPT !.pre = <<p>> \o c.pre]

\* Cacher.register_pre_process / register_post_process: None becomes [p], else append.
register_pre_process(c, p) == [c EXCEPT !.pre = Append(c.pre, p)]

register_post_process(c, p) == [c EXCEPT !.post = Append(c.post, p)]

\* Cacher._read_cache: the stored dataset.
raw_read_cache(cache_file) == cache_file.data

\* Cacher.read_cache: post_process of the stored dataset.
read_cache(c, cache_file) == post_process(c, raw_read_cache(cache_file))

\* Cacher._write_cache at clock reading t: df.to_parquet(cache_file) or
\* df.to_csv(cache_file) writes the file in place.  A write rejected before the
\* file is opened leaves it alone; one that fails later leaves the opened file.
raw_write_cache(cache_file, df, wr, t) ==
    IF wr = "ok" THEN [exists |-> TRUE, data |-> df, mtime |-> t]
    ELSE IF wr = "truncated" THEN [exists |-> TRUE, data |-> Truncated, mtime |-> t]
    ELSE cache_file

\* Cacher.write_cache: pre_process, then _write_cache; returns the dataset written.
write_cache(c, cache_file, df, wr, t) ==
    LET out == pre_process(c, df)
    IN  [df |-> out, file |-> raw_write_cache(cache_file, out, wr, t)]

\* Variants of the comparison: one that takes equal mtimes for a hit, one that
\* looks at existence only.
newer_or_same_cache(input_file, cache_file) ==
    cache_file.exists /\ input_file.mtime <= cache_file.mtime

existing_cache(input_file, cache_file) == cache_file.exists

\* The comparison of Cacher.cache_hit, for files that can both be stat'ed.
newer_cache(input_file, cache_file) ==
    cache_file.exists /\ input_file.mtime < cache_file.mtime

\* Cacher.cache_hit: cache_file.exists() short-circuits; input_file.stat() raises
\* when the cache file exists and the input file does not.
cache_hit(input_file, cache_file) ==
    IF cache_file.exists /\ ~input_file.exists THEN "raised"
    ELSE IF newer_cache(input_file, cache_file) THEN "hit" ELSE "miss"

\* Cacher.cache_miss: not cache_hit; the stat error passes through.
cache_miss(input_file, cache_file) ==
    LET h == cache_hit(input_file, cache_file)
    IN  IF h = "raised" THEN "raised" ELSE IF h = "hit" THEN "miss" ELSE "hit"

\* ---- CacheBehavior ------------------------------------------------------
\* What one strategy call did; `file` is the cache file it leaves behind.
Begin(s, cache_file) ==
    [strategy |-> s, hit |-> "unchecked", outcome |-> "raised", error |-> "none",
     result |-> NoData, thunkCalls |-> 0, thunk |-> "none", fresh |-> NoData,
     cacheReads |-> 0, cacheWrites |-> 0,
     cacheBefore |-> cache_file, file |-> cache_file]

Raise(b, e) == [b EXCEPT !.outcome = "raised", !.error = e]

Return(b, df) == [b EXCEPT !.outcome = "returned", !.result = df]

\* The reader thunk was called: it returned the source's dataset or raised.
Invoke(b, input_file, reader) ==
    [b EXCEPT !.thunkCalls = @ + 1, !.thunk = reader,
              !.fresh = IF reader = "ok" THEN input_file.data ELSE NoData]

\* return cacher.post_process(cacher.read_cache(cache_file))
ReturnCached(b, c) ==
    Return([b EXCEPT !.cacheReads = @ + 1], post_process(c, read_cache(c, b.cacheBefore)))

\* Variant that stores the dataset it returns.
WriteAndReturnStored(b, c, wr, t) ==
    LET data == post_process(c, pre_process(c, b.fresh))
        w == write_cache(c, b.cacheBefore, data, wr, t)
    IN  IF wr = "ok"
        THEN Return([b EXCEPT !.cacheWrites = @ + 1, !.file = w.file], data)
        ELSE [Raise(b, IF wr = "rejected" THEN "SerializationFailure" ELSE "OSError")
                EXCEPT !.file = w.file]

\* data = cacher.pre_process(data); cacher.write_cache(cache_file, data);
\* return cacher.post_process(data)
WriteAndReturn(b, c, wr, t) ==
    LET data == pre_process(c, b.fresh)
        w == write_cache(c, b.cacheBefore, data, wr, t)
    IN  IF wr = "ok"
        THEN Return([b EXCEPT !.cacheWrites = @ + 1, !.file = w.file], post_process(c, data))
        ELSE [Raise(b, IF wr = "rejected" THEN "SerializationFailure" ELSE "OSError")
                EXCEPT !.file = w.file]

_check_cache(input_file, cache_file, c, reader, wr, t) ==
    LET b == Begin("CHECK_CACHE", cache_file)
        h == cache_hit(input_file, cache_file)
        bh == [b EXCEPT !.hit = h]
    IN  IF h = "raised" THEN Raise(bh, "FileNotFoundError")
        ELSE IF h = "hit" THEN ReturnCached(bh, c)
        ELSE LET br == Invoke(bh, input_file, reader)
             IN  IF reader # "ok" THEN Raise(br, reader)
                 ELSE WriteAndReturn(br, c, wr, t)

\* Variant without the cache_file.exists() test in the except block: the read
\* of a missing cache file raises its own error.
_fallback_unguarded(input_file, cache_file, c, reader, wr, t) ==
    LET b == Begin("FALLBACK_TO_CACHE", cache_file)
        h == cache_hit(input_file, cache_file)
        bh == [b EXCEPT !.hit = h]
    IN  IF h = "raised" THEN Raise(bh, "FileNotFoundError")
        ELSE IF h = "hit" THEN ReturnCached(bh, c)
        ELSE LET br == Invoke(bh, input_file, reader)
             IN  IF reader # "ok"
                 THEN IF ~cache_file.exists THEN Raise(br, "FileNotFoundError")
                      ELSE ReturnCached(br, c)
                 ELSE WriteAndReturn(br, c, wr, t)

_fallback_to_cache(input_file, cache_file, c, reader, wr, t) ==
    LET b == Begin("FALLBACK_TO_CACHE", cache_file)
        h == cache_hit(input_file, cache_file)
        bh == [b EXCEPT !.hit = h]
    IN  IF h = "raised" THEN Raise(bh, "FileNotFoundError")
        ELSE IF h = "hit" THEN ReturnCached(bh, c)
        ELSE LET br == Invoke(bh, input_file, reader)
             IN  IF reader # "ok"
                 THEN IF ~cache_file.exists THEN Raise(br, reader)
                      ELSE ReturnCached(br, c)
                 ELSE WriteAndReturn(br, c, wr, t)

\* Variant that opens (truncates) the cache file before reading the source.
_force_truncate_first(input_file, cache_file, c, reader, wr, t) ==
    LET br == Invoke(Begin("FORCE_CACHE_UPDATE", cache_file), input_file, reader)
    IN  IF reader # "ok"
        THEN [Raise(br, reader) EXCEPT !.file = [exists |-> TRUE, data |-> NoData, mtime |-> t]]
        ELSE WriteAndReturn(br, c, wr, t)

_force_cache_update(input_file, cache_file, c, reader, wr, t) ==
    LET br == Invoke(Begin("FORCE_CACHE_UPDATE", cache_file), input_file, reader)
    IN  IF reader # "ok" THEN Raise(br, reader)
        ELSE WriteAndReturn(br, c, wr, t)

\* Variant that caches what it read.
_skip_but_write(input_file, cache_file, c, reader, wr, t) ==
    LET br == Invoke(Begin("SKIP_CACHE", cache_file), input_file, reader)
    IN  IF reader # "ok" THEN Raise(br, reader)
        ELSE WriteAndReturn(br, c, wr, t)

_skip_cache(input_file, cache_file, c, reader, wr, t) ==
    LET br == Invoke(Begin("SKIP_CACHE", cache_file), input_file, reader)
    IN  IF reader # "ok" THEN Raise(br, reader)
        ELSE Return(br, post_process(c, pre_process(c, br.fresh)))

\* data = reader(); return cacher.post_process(data)
_from_cache(input_file, cache_file, c, reader, wr, t) ==
    LET br == Invoke(Begin("FROM_CACHE", cache_file), input_file, reader)
    IN  IF reader # "ok" THEN Raise(br, reader)
        ELSE Return(br, post_process(c, br.fresh))

\* The write is only reached with a dataset in hand.
WriterCanYield(reader) ==
    IF reader = "ok" THEN WriteOutcomes ELSE {"ok"}

\* The reader is partial(pd.read_excel, input_file, sheet_name): it cannot succeed
\* on a file that is not there, and may fail on one that is (corrupt, locked).
ReaderCanYield(input_file) ==
    IF input_file.exists THEN ReaderOutcomes ELSE ReadErrors

\* ---- ExcelCollector -----------------------------------------------------
\* What root_dir.glob(glob_pattern) can yield: workbooks, and a folder whose name
\* matches the pattern as well.
FileNames == {"jan", "feb", "mar"}
FolderNames == {"archive"}
EntryNames == FileNames \cup FolderNames

\* entry.is_file()
is_file(e) == e \in FileNames

\* A collected dataset is the set of its rows, each tagged with the entry it was
\* read from.  NoData is the frame whose cells are all missing: concatenated, it
\* would add a row without a value.
Rows(e, df) == {<<e, df>>}

_any_frame(df) == TRUE

\* _valid_frame(df): (not df.empty) and df.notna().any().any()
_valid_frame(df) == df # NoData

\* A processor of the collector's own cacher runs over every row of the aggregate.
ApplyRows(procs, rows) == {<<r[1], ApplyAll(procs, r[2])>> : r \in rows}

AbsentOutput == [exists |-> FALSE, data |-> {}, mtime |-> 0]

\* DEFAULT_CACHER(): a cacher with no processor registered.
DEFAULT_CACHER == [pre |-> <<>>, post |-> <<>>]

\* An aggregate file that was opened for writing and not written holds no row; a
\* written aggregate holds at least one.
TruncatedRows == {}

\* self.cacher.write_cache(self.output_path, collected): pre-processes, writes,
\* returns what it wrote.
write_collected(c, output_file, rows, wr, t) ==
    LET data == ApplyRows(c.pre, rows)
    IN  [df |-> data,
         file |-> IF wr = "ok" THEN [exists |-> TRUE, data |-> data, mtime |-> t]
                  ELSE IF wr = "truncated"
                  THEN [exists |-> TRUE, data |-> TruncatedRows, mtime |-> t]
                  ELSE output_file]

\* self.cacher.read_cache(self.output_path)
read_collected(c, output_file) == ApplyRows(c.post, output_file.data)

read_excel_falling_back(strategy, input_file, cache_file, c, reader, wr, t) ==
    _fallback_to_cache(input_file, cache_file, c, reader, wr, t)

\* reader.read_excel(entry, sheet_name, cacher=cacher, strategy=strategy)
read_excel(strategy, input_file, cache_file, c, reader, wr, t) ==
    CASE strategy = "CHECK_CACHE" -> _check_cache(input_file, cache_file, c, reader, wr, t)
      [] strategy = "FALLBACK_TO_CACHE" ->
             _fallback_to_cache(input_file, cache_file, c, reader, wr, t)
      [] strategy = "FORCE_CACHE_UPDATE" ->
             _force_cache_update(input_file, cache_file, c, reader, wr, t)
      [] strategy = "SKIP_CACHE" -> _skip_cache(input_file, cache_file, c, reader, wr, t)
      [] OTHER -> _from_cache(input_file, cache_file, c, reader, wr, t)

glob(es) == {e \in EntryNames : es[e].exists}

\* _update_st_mtime: the aggregate's st_mtime, or None (which, like 0.0, is falsy and
\* is written 0 here) when the aggregate is not there.
_update_st_mtime(output_file) == IF output_file.exists THEN output_file.mtime ELSE 0

\* out_st_mtime: self._out_st_mtime or self._update_st_mtime() or 0.0
out_st_mtime(col, output_file) ==
    IF col.st_mtime # 0 THEN col.st_mtime ELSE _update_st_mtime(output_file)

_should_collect_when_missing(col, es, output_file) ==
    ~output_file.exists

_should_collect_or_same(col, es, output_file) ==
    \/ ~output_file.exists
    \/ \E e \in glob(es) : is_file(e) /\ es[e].mtime >= out_st_mtime(col, output_file)

_should_collect(col, es, output_file) ==
    \/ ~output_file.exists
    \/ \E e \in glob(es) : is_file(e) /\ es[e].mtime > out_st_mtime(col, output_file)

\* self._out_st_mtime once _should_collect has been evaluated: reading the
\* property out_st_mtime refreshes a falsy recorded value.
StMtimeChecked(col, es, output_file) ==
    IF output_file.exists /\ col.st_mtime = 0 /\ (\E e \in glob(es) : is_file(e))
    THEN _update_st_mtime(output_file) ELSE col.st_mtime

NoCollect ==
    [op |-> "none", strategy |-> "none", stale |-> FALSE, outcome |-> "returned",
     result |-> {}, opened |-> {}, failed |-> {}, cacheReads |-> {}, cacheWrites |-> {},
     wrote |-> FALSE, outputBefore |-> AbsentOutput, recorded |-> 0]

\* What a collect() leaves: the record of the call, the aggregate file, the
\* per-entry cache files and the recorded st_mtime.
Collected(obs, output_file, ecs, st) ==
    [obs |-> obs, output |-> output_file, entry_cache |-> ecs, st_mtime |-> st]

\* _perform_collect(reader, cacher, strategy); failing is the set of entries on which
\* pd.read_excel raises when it is called, wr the outcome of the aggregate's write.
_perform_collect(col, es, ecs, output_file, strategy, c, failing, wr, t) ==
    LET files == {e \in glob(es) : is_file(e)}
        raw_frames == [e \in files |->
            read_excel(strategy, es[e], ecs[e], c,
                       IF e \in failing THEN "IOError" ELSE "ok", "ok", t)]
        raised == {e \in files : raw_frames[e].outcome = "raised"}
        frames == UNION {Rows(e, raw_frames[e].result) :
                            e \in {f \in files \ raised : _valid_frame(raw_frames[f].result)}}
        ecs2 == [e \in EntryNames |-> IF e \in files THEN raw_frames[e].file ELSE ecs[e]]
        obs == [NoCollect EXCEPT
                   !.op = "collect", !.strategy = strategy, !.stale = TRUE,
                   !.opened = {e \in files : raw_frames[e].thunkCalls > 0},
                   !.failed = {e \in files : raw_frames[e].thunk \in ReadErrors},
                   !.cacheReads = {e \in files : raw_frames[e].cacheReads > 0},
                   !.cacheWrites = {e \in files : raw_frames[e].cacheWrites > 0}]
        w == write_collected(col.cacher, output_file, frames, wr, t)
        st == StMtimeChecked(col, es, output_file)
    IN  IF raised # {}
        THEN Collected([obs EXCEPT !.outcome = "raised"], output_file, ecs2, st)
        ELSE IF frames = {}
        THEN Collected(obs, output_file, ecs2, st)
        ELSE IF wr # "ok"
        THEN Collected([obs EXCEPT !.outcome = "raised"], w.file, ecs2, st)
        ELSE Collected([obs EXCEPT !.result = w.df, !.wrote = TRUE], w.file, ecs2,
                       _update_st_mtime(w.file))

\* ExcelCollector.collect(reader=None, cacher=None, strategy=strategy); the record
\* keeps the aggregate file and the out_st_mtime the call found.
collect(col, es, ecs, output_file, strategy, failing, wr, t) ==
    LET r == IF _should_collect(col, es, output_file)
             THEN _perform_collect(col, es, ecs, output_file, strategy, DEFAULT_CACHER,
                                   failing, wr, t)
             ELSE Collected([NoCollect EXCEPT !.op = "collect",
                                              !.result = read_collected(col.cacher, output_file)],
                            output_file, ecs, StMtimeChecked(col, es, output_file))
    IN  [r EXCEPT !.obs.outputBefore = output_file,
                  !.obs.recorded = out_st_mtime(col, output_file)]

\* ---- paths and directories ----------------------------------------------
\* A path is the sequence of its components; a component is a name with a
\* possible leading dot and a possible extension.
Name(base) == [dot |-> FALSE, base |-> base, ext |-> <<>>]
DotName(base) == [dot |-> TRUE, base |-> base, ext |-> <<>>]

\* path.parent, path.name, path / name
Parent(path) == SubSeq(path, 1, Len(path) - 1)
NameOf(path) == path[Len(path)]
Join(path, rel) == path \o rel

IsPrefix(p, q) == Len(p) <= Len(q) /\ SubSeq(q, 1, Len(p)) = p

\* The directory tree: the directories, the regular files, and the files whose
\* removal the operating system refuses (PermissionError).
Tree(dirs, files, locked) == [dirs |-> dirs, files |-> files, locked |-> locked]

exists(d, path) == path \in d.dirs \/ path \in d.files
is_dir(d, path) == path \in d.dirs

\* path.iterdir()
iterdir(d, path) == {q \in d.dirs \cup d.files : Len(q) = Len(path) + 1 /\ IsPrefix(path, q)}

\* path.mkdir(parents=True, exist_ok=True)
mkdir(d, path) ==
    [d EXCEPT !.dirs = @ \cup {SubSeq(path, 1, n) : n \in 1 .. Len(path)}]

\* What a call on the tree leaves: how it ended, its value, and the tree.
Ended(outcome, error, value, d) ==
    [outcome |-> outcome, error |-> error, value |-> value, disk |-> d]

Moved(q, old, new) == IF IsPrefix(old, q) THEN new \o SubSeq(q, Len(old) + 1, Len(q)) ELSE q

\* path.rename(new_path) of a directory (POSIX): an empty directory at new_path
\* is replaced, one with content makes the call raise OSError.
rename(d, old, new) ==
    IF new \in d.files \/ iterdir(d, new) # {}
    THEN Ended("raised", "OSError", <<>>, d)
    ELSE Ended("returned", "none", <<>>,
               Tree({Moved(q, old, new) : q \in d.dirs},
                    {Moved(q, old, new) : q \in d.files},
                    {Moved(q, old, new) : q \in d.locked}))

\* hide_file(path) where os.name is not "nt": a name without a leading dot is
\* renamed to the dotted name; the value is the local variable `path`.
hide_file(d, path) ==
    IF ~NameOf(path).dot
    THEN LET new_path == Join(Parent(path), <<[NameOf(path) EXCEPT !.dot = TRUE]>>)
             r == rename(d, path, new_path)
         IN  IF r.outcome = "raised" THEN r ELSE [r EXCEPT !.value = path]
    ELSE Ended("returned", "none", path, d)

\* ---- resolve strategies -------------------------------------------------
ResolveStrategies == {"RESOLVE_TO_ROOT", "RESOLVE_TO_SYSTEM"}
DEFAULT_RESOLVE_STRATEGY == "RESOLVE_TO_ROOT"

\* sys_cache_dir(): the per-user cache location.
DEFAULT_CACHE_DIR == <<Name("home"), DotName("cache"), Name("pycaching")>>

\* The cache_dir hint: None, or a string naming a sub-folder.
NoHint == <<>>
Hints == {NoHint, <<DotName("store")>>, <<Name("store")>>}

_resolve_to_system(d, root_dir, cache_dir) ==
    LET path == Join(DEFAULT_CACHE_DIR, cache_dir)
    IN  Ended("returned", "none", path, mkdir(d, path))

_resolve_to_root(d, root_dir, cache_dir) ==
    LET hint == IF cache_dir = NoHint THEN <<DotName("cache")>> ELSE cache_dir
        path == Join(root_dir, hint)
    IN  hide_file(mkdir(d, path), path)

\* ResolveStrategyType.__call__
Resolve(resolver, d, root_dir, cache_dir) ==
    IF resolver = "RESOLVE_TO_ROOT" THEN _resolve_to_root(d, root_dir, cache_dir)
    ELSE _resolve_to_system(d, root_dir, cache_dir)

\* ---- CacheManager -------------------------------------------------------
NoManager ==
    [built |-> FALSE, root_dir |-> <<>>, raw_cache_dir |-> NoHint,
     cache_resolver |-> DEFAULT_RESOLVE_STRATEGY, cache_dir |-> <<>>]

\* What a call on the manager leaves: the manager, and how the call ended.
Done(m, r) == [manager |-> m, outcome |-> r.outcome, error |-> r.error, value |-> r.value,
               disk |-> r.disk]

_validate_root_dir_exists(d, root_dir) ==
    IF ~exists(d, root_dir) THEN "FileNotFoundError" ELSE "ok"

\* _validate_root_dir: "ok", or the exception raised
_validate_root_dir(d, root_dir) ==
    IF ~exists(d, root_dir) THEN "FileNotFoundError"
    ELSE IF ~is_dir(d, root_dir) THEN "TypeError"
    ELSE "ok"

\* CacheManager(root_dir, cache_dir, cache_resolver=cache_resolver)
CacheManager(d, root_dir, cache_dir, cache_resolver) ==
    LET v == _validate_root_dir(d, root_dir)
        r == Resolve(cache_resolver, d, root_dir, cache_dir)
    IN  IF v # "ok" THEN Done(NoManager, Ended("raised", v, <<>>, d))
        ELSE IF r.outcome = "raised" THEN Done(NoManager, r)
        ELSE Done([built |-> TRUE, root_dir |-> root_dir, raw_cache_dir |-> cache_dir,
                   cache_resolver |-> cache_resolver, cache_dir |-> r.value], r)

\* manager.cache_dir = cache_dir
set_cache_dir(m, d, cache_dir) ==
    IF cache_dir = m.raw_cache_dir THEN Done(m, Ended("returned", "none", <<>>, d))
    ELSE LET m1 == [m EXCEPT !.raw_cache_dir = cache_dir]
             r == Resolve(m1.cache_resolver, d, m1.root_dir, cache_dir)
         IN  IF r.outcome = "raised" THEN Done(m1, r)
             ELSE Done([m1 EXCEPT !.cache_dir = r.value], r)

\* manager.root_dir = root_dir
set_root_dir(m, d, root_dir) ==
    LET v == _validate_root_dir(d, root_dir)
    IN  IF v # "ok" THEN Done(m, Ended("raised", v, <<>>, d))
        ELSE IF root_dir = m.root_dir THEN Done(m, Ended("returned", "none", <<>>, d))
        ELSE LET m1 == [m EXCEPT !.root_dir = root_dir]
             IN  set_cache_dir(m1, d, m1.raw_cache_dir)

\* manager.cache_resolver = cache_resolve
set_cache_resolver(m, d, cache_resolve) ==
    IF cache_resolve = m.cache_resolver THEN Done(m, Ended("returned", "none", <<>>, d))
    ELSE LET m1 == [m EXCEPT !.cache_resolver = cache_resolve]
         IN  set_cache_dir(m1, d, m1.raw_cache_dir)

\* entry.unlink() / shutil.rmtree(entry)
unlink(d, entry) ==
    Tree({q \in d.dirs : ~IsPrefix(entry, q)}, {q \in d.files : ~IsPrefix(entry, q)}, d.locked)

\* _clear_dir(path), iterdir yielding the entries in the given order
RECURSIVE _clear_dir(_, _)
_clear_dir(d, order) ==
    IF order = <<>> THEN Ended("returned", "none", <<>>, d)
    ELSE IF Head(order) \in d.locked THEN Ended("raised", "PermissionError", <<>>, d)
    ELSE _clear_dir(unlink(d, Head(order)), Tail(order))

\* _try_clear_dir(path): the value is the list lack_permissions
RECURSIVE _try_clear_dir(_, _, _)
_try_clear_dir(d, order, lack_permissions) ==
    IF order = <<>> THEN Ended("returned", "none", lack_permissions, d)
    ELSE IF Head(order) \in d.locked
    THEN _try_clear_dir(d, Tail(order), Append(lack_permissions, Head(order)))
    ELSE _try_clear_dir(unlink(d, Head(order)), Tail(order), lack_permissions)

\* clear_dir(path, must_exist, must_clear)
clear_dir(d, path, must_exist, must_clear, order) ==
    IF ~exists(d, path)
    THEN IF must_exist THEN Ended("raised", "FileNotFoundError", <<>>, d)
         ELSE Ended("returned", "none", <<>>, d)
    ELSE IF ~is_dir(d, path) THEN Ended("raised", "TypeError", <<>>, d)
    ELSE IF must_clear THEN _clear_dir(d, order)
    ELSE _try_clear_dir(d, order, <<>>)

\* CacheManager.clear_cache(): clear_dir(self.cache_dir); it returns None, so the
\* caller is handed no list.
clear_cache(m, d, order) ==
    LET r == clear_dir(d, m.cache_dir, TRUE, TRUE, order)
    IN  Done(m, [r EXCEPT !.value = <<>>])

\* f"{cache_file}{cacher.suffix}" on the last component of a string
Suffixed(parts, suffix) ==
    [parts EXCEPT ![Len(parts)].ext = Append(@, suffix)]

\* f"{cache_file.stem}{cacher.suffix}"
StemSuffixed(name, suffix) ==
    [name EXCEPT !.ext = IF @ = <<>> THEN <<suffix>>
                         ELSE Append(SubSeq(@, 1, Len(@) - 1), suffix)]

output_path_in_cache_dir(m, cache_file, suffix) ==
    Join(m.cache_dir, <<StemSuffixed(NameOf(cache_file.parts), suffix)>>)

\* CacheManager.output_path(cache_file, cacher); cache_file is a str or a Path
output_path(m, cache_file, suffix) ==
    IF cache_file.kind = "str"
    THEN Join(m.cache_dir, Suffixed(cache_file.parts, suffix))
    ELSE Join(Parent(cache_file.parts), <<StemSuffixed(NameOf(cache_file.parts), suffix)>>)

\* ---- Cacher pipelines ---------------------------------------------------
MaxSupplied == 1     \* processors in a list handed to the constructor
MaxRegistered == 2   \* processors registered on one cacher, pre and post together

\* A frame is a dataset that may hold object columns.
Frames == [data : Dataset, objects : BOOLEAN]

\* A constructor argument: None, one callable, or a list of callables.
Supplied ==
    {[kind |-> "None", procs |-> <<>>]} \cup
    {[kind |-> "callable", procs |-> <<p>>] : p \in Processors} \cup
    {[kind |-> "list", procs |-> l] : l \in UNION {[1 .. k -> Processors] : k \in 0 .. MaxSupplied}}

\* Cacher.__init__: a callable becomes a one-element list; None applies nothing.
Cacher(pre_process_arg, post_process_arg) ==
    [pre |-> pre_process_arg.procs, post |-> post_process_arg.procs]

\* ParquetCacher._obj_cols_to_str: object columns become string columns.
_obj_cols_to_str(f) == [f EXCEPT !.objects = FALSE]

\* Cacher.pre_process, and ParquetCacher.pre_process which converts afterwards.
frame_pre_process(kind, c, f) ==
    LET out == [f EXCEPT !.data = pre_process(c, f.data)]
    IN  IF kind = "ParquetCacher" THEN _obj_cols_to_str(out) ELSE out

\* Cacher.post_process
frame_post_process(kind, c, f) == [f EXCEPT !.data = post_process(c, f.data)]

\* ---- CachedExcelReader: cache file names --------------------------------
\* Text is a sequence of characters.  Stems and sheet names are drawn from an
\* alphabet with a letter, the separator and a digit.
MaxStem == 2         \* characters of a workbook's stem
MaxSheetName == 2    \* characters of a sheet's name
MaxSheetIndex == 1   \* sheet positions 0..MaxSheetIndex

Chars == {"a", "-", "0"}

Texts(n) == UNION {[1 .. k -> Chars] : k \in 1 .. n}

DigitChars == <<"0", "1", "2", "3", "4", "5", "6", "7", "8", "9">>

\* str(n) for a non-negative integer
RECURSIVE Decimal(_)
Decimal(n) ==
    IF n < 10 THEN <<DigitChars[n + 1]>>
    ELSE Append(Decimal(n \div 10), DigitChars[(n % 10) + 1])

\* A sheet selector is a position or a name.
SheetIndex(i) == [kind |-> "int", index |-> i, name |-> <<>>]
SheetName(n) == [kind |-> "str", index |-> 0, name |-> n]

SheetSelectors ==
    {SheetIndex(i) : i \in 0 .. MaxSheetIndex} \cup {SheetName(n) : n \in Texts(MaxSheetName)}

\* f"{sheet_name}": the decimal digits of a position, the text of a name.
Format(sheet_name) ==
    IF sheet_name.kind = "int" THEN Decimal(sheet_name.index) ELSE sheet_name.name

\* An input file is a str, a Path or an open pd.ExcelFile; it names a workbook by
\* directory, stem and extension ("" for none).
ExcelSuffixes == {"", ".xlsx", ".xlsm"}
CacherSuffixes == {".parquet", ".csv"}

InputFile(kind, dir, name, ext) == [kind |-> kind, dir |-> dir, name |-> name, ext |-> ext]

\* root_dir / (input_file if input_file.endswith(".xlsx") else input_file + ".xlsx")
with_xlsx(root_dir, input_file) ==
    IF input_file.ext = ".xlsx" THEN InputFile("Path", root_dir, input_file.name, ".xlsx")
    ELSE IF input_file.ext = "" THEN InputFile("Path", root_dir, input_file.name, ".xlsx")
    ELSE InputFile("Path", root_dir, Append(input_file.name, input_file.ext), ".xlsx")

\* Path.stem: the final component without its last suffix.
stem(input_path) == input_path.name

\* CachedExcelReader._map_paths: cache_dir / f"{input_path.stem}-{sheet_name}{suffix}"
_map_paths(root_dir, cache_dir, input_file, sheet_name, cacher_suffix) ==
    LET input_path == IF input_file.kind = "str" THEN with_xlsx(root_dir, input_file)
                      ELSE [input_file EXCEPT !.kind = "Path"]
    IN  [input_file |-> IF input_file.kind = "str" THEN input_path ELSE input_file,
         cache_file |-> [dir |-> cache_dir,
                         name |-> stem(input_path) \o <<"-">> \o Format(sheet_name),
                         suffix |-> cacher_suffix]]

\* ---- CachedExcelReader.read_excel ----------------------------------------
MaxSheets == 2       \* sheets of the workbook

\* The workbook's stem, and the names its sheets can have.
WorkbookStem == <<"a">>
WorkbookSheetNames == {<<"a">>, <<"0">>}

\* Every cache file name a read of the workbook can map to.
CacheNames ==
    {WorkbookStem \o <<"-">> \o Format(sn) :
        sn \in {SheetIndex(i) : i \in 0 .. (MaxSheets - 1)} \cup
               {SheetName(n) : n \in WorkbookSheetNames}}

\* Path(input_file): a relative name is relative to the working directory.
as_path(input_file) == [input_file EXCEPT !.kind = "Path"]

\* The position (from 1) of the sheet a selector addresses, 0 when there is none.
sheet_of(wb, sheet_name) ==
    IF sheet_name.kind = "int"
    THEN IF sheet_name.index < Len(wb.sheets) THEN sheet_name.index + 1 ELSE 0
    ELSE IF \E i \in 1 .. Len(wb.sheets) : wb.sheets[i].name = sheet_name.name
         THEN CHOOSE i \in 1 .. Len(wb.sheets) : wb.sheets[i].name = sheet_name.name
         ELSE 0

\* excel_file.sheet_names
sheet_names(wb) == [i \in 1 .. Len(wb.sheets) |-> wb.sheets[i].name]

\* What one single-sheet read did: the strategy call, the cache file it used and
\* the number of times the workbook was opened for it.
SheetRead(key, cache_name, b, opens) ==
    [key |-> key, cache_name |-> cache_name, call |-> b, opens |-> opens]

\* Variant whose reader is partial(pd.read_excel, Path(input_file), sheet_name): it
\* opens the workbook whenever it is called.
read_sheet_reopening(rd, wb, caches, input_file, sheet_name, strategy, c, t) ==
    LET m == _map_paths(rd.root_dir, rd.cache_dir, input_file, sheet_name, ".parquet")
        there == wb.exists /\ as_path(m.input_file) = wb.path
        i == IF there THEN sheet_of(wb, sheet_name) ELSE 0
        src == IF there
               THEN [exists |-> TRUE, data |-> IF i > 0 THEN wb.sheets[i].data ELSE NoData,
                     mtime |-> wb.mtime]
               ELSE AbsentFile
        b == read_excel(strategy, src, caches[m.cache_file.name], c,
                        IF i > 0 THEN "ok" ELSE "IOError", "ok", t)
    IN  SheetRead(Format(sheet_name), m.cache_file.name, b, b.thunkCalls)

\* read_excel with one sheet: _map_paths, reader = partial(pd.read_excel, input_file,
\* sheet_name), strategy(Path(input_file), cache_file, cacher, reader).  The reader
\* opens the workbook unless input_file is an open pd.ExcelFile.
read_sheet(rd, wb, caches, input_file, sheet_name, strategy, c, t) ==
    LET m == _map_paths(rd.root_dir, rd.cache_dir, input_file, sheet_name, ".parquet")
        there == wb.exists /\ as_path(m.input_file) = wb.path
        i == IF there THEN sheet_of(wb, sheet_name) ELSE 0
        src == IF there
               THEN [exists |-> TRUE, data |-> IF i > 0 THEN wb.sheets[i].data ELSE NoData,
                     mtime |-> wb.mtime]
               ELSE AbsentFile
        b == read_excel(strategy, src, caches[m.cache_file.name], c,
                        IF i > 0 THEN "ok" ELSE "IOError", "ok", t)
    IN  SheetRead(Format(sheet_name), m.cache_file.name, b,
                  IF m.input_file.kind = "ExcelFile" THEN 0 ELSE b.thunkCalls)

\* The dict comprehension over excel_file.sheet_names: one read after the other,
\* stopping at the first that raises.
RECURSIVE read_sheets(_, _, _, _, _, _, _, _, _)
read_sheets(rd, wb, caches, excel_file, names, strategy, c, t, done) ==
    IF names = <<>> THEN [caches |-> caches, reads |-> done, outcome |-> "returned"]
    ELSE LET r == read_sheet(rd, wb, caches, excel_file, SheetName(Head(names)),
                             strategy, c, t)
             caches2 == [caches EXCEPT ![r.cache_name] = r.call.file]
         IN  IF r.call.outcome = "raised"
             THEN [caches |-> caches2, reads |-> Append(done, r), outcome |-> "raised"]
             ELSE read_sheets(rd, wb, caches2, excel_file, Tail(names), strategy, c, t,
                              Append(done, r))

\* How many times the reads of a sequence opened the workbook.
RECURSIVE Opens(_)
Opens(reads) == IF reads = <<>> THEN 0 ELSE Head(reads).opens + Opens(Tail(reads))

NoReading ==
    [op |-> "none", input_file |-> InputFile("none", "none", <<>>, ""),
     sheet_name |-> SheetIndex(0), strategy |-> "none", cacher |-> DEFAULT_CACHER,
     outcome |-> "returned", error |-> "none", reads |-> <<>>, opens |-> 0]

\* read_excel(input_file, None): with pd.ExcelFile(input_file) as excel_file, then a
\* single-sheet read of excel_file for every sheet name.
read_excel_all(rd, wb, caches, input_file, strategy, c, t) ==
    LET began == [NoReading EXCEPT !.op = "all", !.input_file = input_file,
                                   !.strategy = strategy, !.cacher = c]
    IN  IF ~(wb.exists /\ as_path(input_file) = wb.path)
        THEN [caches |-> caches,
              reading |-> [began EXCEPT !.outcome = "raised", !.error = "FileNotFoundError"]]
        ELSE LET excel_file == [as_path(input_file) EXCEPT !.kind = "ExcelFile"]
                 r == read_sheets(rd, wb, caches, excel_file, sheet_names(wb), strategy,
                                  c, t, <<>>)
                 last == r.reads[Len(r.reads)]
             IN  [caches |-> r.caches,
                  reading |-> [began EXCEPT
                     !.outcome = r.outcome,
                     !.error = IF r.outcome = "raised" THEN last.call.error ELSE "none",
                     !.reads = r.reads,
                     !.opens = 1 + Opens(r.reads)]]

\* ---- ExcelCollector: the worker pool --------------------------------------
\* The workbooks that can lie under root_dir, each holding its own content, and
\* the glob patterns a collector may be given.
PoolFiles ==
    {InputFile("Path", "root", <<"a">>, ".xlsx"), InputFile("Path", "root", <<"b">>, ".xlsx"),
     InputFile("Path", "root", <<"a">>, ".xlsm"), InputFile("Path", "root/sub", <<"a">>, ".xlsx")}

GlobPatterns == {"*.xlsx", "*.xls*", "**/*.xlsx"}

\* root_dir.glob(glob_pattern)
glob_match(glob_pattern, f) ==
    CASE glob_pattern = "*.xlsx" -> f.dir = "root" /\ f.ext = ".xlsx"
      [] glob_pattern = "*.xls*" -> f.dir = "root"
      [] OTHER -> f.ext = ".xlsx"

\* Names the aggregate can be given: one that reads like a per-sheet cache file,
\* and root_dir.stem.
OutputNames == {<<"a", "-", "0">>, <<"r", "o", "o", "t">>}
PoolSheets == {SheetIndex(0), SheetName(<<"0">>)}

\* A file as a location: directory, name and suffix.
Location(dir, name, suffix) == [dir |-> dir, name |-> name, suffix |-> suffix]

\* ExcelCollector._update_output_path: cache_dir / f"{output_name}{cacher.suffix}"
_update_output_path(cache_dir, output_name, suffix) == Location(cache_dir, output_name, suffix)

\* The cache file reader.read_excel(entry, sheet_name, cacher=DEFAULT_CACHER) uses.
worker_cache_file(cache_dir, entry, sheet_name) ==
    _map_paths("root", cache_dir, entry, sheet_name, ".parquet").cache_file

\* entries of _perform_collect: the matched files other than the aggregate itself
pool_entries(files, glob_pattern, out_path) ==
    {f \in files : glob_match(glob_pattern, f)
                   /\ Location(f.dir, f.name, f.ext) # out_path}

\* Every file of cache_dir a collect() can touch.
PoolPaths ==
    {worker_cache_file("cache", f, sn) : f \in PoolFiles, sn \in PoolSheets} \cup
    {_update_output_path("cache", n, sfx) : n \in OutputNames, sfx \in CacherSuffixes}

NoContent == InputFile("none", "none", <<>>, "")
Coordinator == InputFile("coordinator", "none", <<>>, "")
AbsentEntry == [exists |-> FALSE, data |-> NoContent, mtime |-> 0]

NoPool ==
    [files |-> {}, glob_pattern |-> "none", sheet_name |-> SheetIndex(0),
     output_path |-> Location("none", <<>>, ""), phase |-> "idle", entries |-> {},
     pc |-> [f \in PoolFiles |-> "none"], seen |-> [f \in PoolFiles |-> AbsentEntry],
     hit |-> [f \in PoolFiles |-> FALSE], stored |-> [q \in PoolPaths |-> AbsentEntry],
     writes |-> {}]

\* ---- state machine ------------------------------------------------------
NoCall == Begin("none", AbsentFile)

Returned(op, h, m, input_file, cache_file) ==
    [op |-> op, hit |-> h, miss |-> m, source |-> input_file, cache |-> cache_file]

NoProbe == Returned("none", "none", "none", AbsentFile, AbsentFile)

StrategyReturned == Returned("strategy", "none", "none", AbsentFile, AbsentFile)

\* The collector and the manager while nothing uses them.
CollectorAtRest ==
    /\ entries = [e \in EntryNames |-> AbsentFile]
    /\ entry_cache = [e \in EntryNames |-> AbsentFile]
    /\ output = AbsentOutput
    /\ collector = [cacher |-> DEFAULT_CACHER, st_mtime |-> 0]
    /\ collected = NoCollect

NoReturn ==
    [op |-> "none", args |-> <<>>, outcome |-> "returned", error |-> "none", value |-> <<>>,
     before |-> Tree({}, {}, {}), again |-> FALSE, first |-> <<>>]

ManagerAtRest ==
    /\ disk = Tree({}, {}, {})
    /\ manager = NoManager
    /\ returned = NoReturn

NoMap ==
    [input_file |-> InputFile("none", "none", <<>>, ""), sheet_name |-> SheetIndex(0),
     cacher_suffix |-> "", stem |-> <<>>,
     cache_file |-> [dir |-> "none", name |-> <<>>, suffix |-> ""]]

NotApplied ==
    [kind |-> "none", supplied_pre |-> <<>>, supplied_post |-> <<>>,
     registered_pre |-> <<>>, registered_post |-> <<>>,
     op |-> "none", df |-> [data |-> NoData, objects |-> FALSE],
     result |-> [data |-> NoData, objects |-> FALSE]]

NoWorkbook ==
    [exists |-> FALSE, path |-> InputFile("Path", "none", <<>>, ""), mtime |-> 0,
     sheets |-> <<>>]

ReadingAtRest ==
    /\ applied = NotApplied
    /\ pool = NoPool
    /\ workbook = NoWorkbook
    /\ excel_reader = [root_dir |-> "cwd", cache_dir |-> "cache"]
    /\ sheet_cache = [n \in CacheNames |-> AbsentFile]
    /\ reading = NoReading

ReaderAtRest ==
    /\ mapped = NoMap
    /\ ReadingAtRest

Init ==
    /\ CollectorAtRest
    /\ ReaderAtRest
    /\ ManagerAtRest
    /\ now = 1
    /\ source \in [exists : {TRUE}, data : Dataset, mtime : {0}]
    /\ cache = AbsentFile
    /\ cacher = [pre |-> <<>>, post |-> <<>>]
    /\ call = NoCall
    /\ since = {}
    /\ probe = NoProbe

\* The filesystem clock advances.
Tick ==
    /\ now < MaxTime
    /\ now' = now + 1
    /\ probe' = NoProbe
    /\ UNCHANGED <<source, cache, cacher, call, since>>
    /\ UNCHANGED <<collectorVars, managerVars, readerVars>>

\* Somebody saves the source workbook: new content, modification time = clock.
TouchSource ==
    /\ \E d \in Dataset : source' = [exists |-> TRUE, data |-> d, mtime |-> now]
    /\ since' = since \cup {"source"}
    /\ probe' = NoProbe
    /\ UNCHANGED <<now, cache, cacher, call>>
    /\ UNCHANGED <<collectorVars, managerVars, readerVars>>

\* Somebody removes the source workbook.
RemoveSource ==
    /\ source.exists
    /\ source' = AbsentFile
    /\ since' = since \cup {"source"}
    /\ probe' = NoProbe
    /\ UNCHANGED <<now, cache, cacher, call>>
    /\ UNCHANGED <<collectorVars, managerVars, readerVars>>

\* cacher.register_pre_process(p) / cacher.register_post_process(p)
RegisterPreProcess ==
    /\ Len(cacher.pre) + Len(cacher.post) < MaxProcs
    /\ \E p \in Processors : cacher' = register_pre_process(cacher, p)
    /\ since' = since \cup {"cacher"}
    /\ probe' = NoProbe
    /\ UNCHANGED <<now, source, cache, call>>
    /\ UNCHANGED <<collectorVars, managerVars, readerVars>>

RegisterPostProcess ==
    /\ Len(cacher.pre) + Len(cacher.post) < MaxProcs
    /\ \E p \in Processors : cacher' = register_post_process(cacher, p)
    /\ since' = since \cup {"cacher"}
    /\ probe' = NoProbe
    /\ UNCHANGED <<now, source, cache, call>>
    /\ UNCHANGED <<collectorVars, managerVars, readerVars>>

\* cacher.cache_hit(input_file, cache_file) and cacher.cache_miss(...) are evaluated.
ProbeCache ==
    /\ probe' = Returned("cache_hit", cache_hit(source, cache), cache_miss(source, cache),
                          source, cache)
    /\ UNCHANGED <<now, source, cache, cacher, call, since>>
    /\ UNCHANGED <<collectorVars, managerVars, readerVars>>

\* strategy(input_file, cache_file, cacher, reader) ran to its end with outcome r.
Perform(r) ==
    /\ call' = r
    /\ cache' = r.file
    /\ since' = {}
    /\ probe' = StrategyReturned
    /\ UNCHANGED <<now, source, cacher>>
    /\ UNCHANGED <<collectorVars, managerVars, readerVars>>

CheckCache ==
    \E reader \in ReaderCanYield(source) : \E wr \in WriterCanYield(reader) :
        Perform(_check_cache(source, cache, cacher, reader, wr, now))

FallbackToCache ==
    \E reader \in ReaderCanYield(source) : \E wr \in WriterCanYield(reader) :
        Perform(_fallback_to_cache(source, cache, cacher, reader, wr, now))

ForceCacheUpdate ==
    \E reader \in ReaderCanYield(source) : \E wr \in WriterCanYield(reader) :
        Perform(_force_cache_update(source, cache, cacher, reader, wr, now))

SkipCache ==
    \E reader \in ReaderCanYield(source) : \E wr \in WriterCanYield(reader) :
        Perform(_skip_cache(source, cache, cacher, reader, wr, now))

FromCache ==
    \E reader \in ReaderCanYield(source) : \E wr \in WriterCanYield(reader) :
        Perform(_from_cache(source, cache, cacher, reader, wr, now))

Next ==
    \/ Tick
    \/ TouchSource
    \/ RemoveSource
    \/ RegisterPreProcess
    \/ RegisterPostProcess
    \/ CheckCache
    \/ FallbackToCache
    \/ ForceCacheUpdate
    \/ SkipCache
    \/ FromCache

Spec == Init /\ [][Next]_vars

\* cache_hit and cache_miss on their own: any source file and any cache file
\* the clock allows, then evaluations while the source keeps changing.
Files(t) == {AbsentFile} \cup [exists : {TRUE}, data : Dataset, mtime : 0 .. t]

HitInit ==
    /\ CollectorAtRest
    /\ ReaderAtRest
    /\ ManagerAtRest
    /\ now \in 1 .. MaxTime
    /\ source \in Files(now)
    /\ cache \in Files(now)
    /\ cacher = [pre |-> <<>>, post |-> <<>>]
    /\ call = NoCall
    /\ since = {}
    /\ probe = NoProbe

HitNext ==
    \/ Tick
    \/ TouchSource
    \/ RemoveSource
    \/ ProbeCache

HitSpec == HitInit /\ [][HitNext]_vars

\* ---- ExcelCollector over a changing root_dir ----------------------------
\* The output_cacher the collector is constructed with: the default one, one that
\* pre-processes, one that post-processes.
OutputCachers ==
    {DEFAULT_CACHER, [pre |-> <<"inc">>, post |-> <<>>], [pre |-> <<>>, post |-> <<"inc">>]}

\* What a workbook holds: nothing but empty cells, or data.
Workbooks == {NoData, 1}

\* ExcelCollector(root_dir, output_cacher=c) on a root_dir with no workbook yet
\* and an empty cache_dir: _update_output_path records st_mtime None.
CollectInit ==
    /\ now = 1
    /\ source = AbsentFile
    /\ cache = AbsentFile
    /\ cacher = DEFAULT_CACHER
    /\ call = NoCall
    /\ since = {}
    /\ probe = NoProbe
    /\ entries = [e \in EntryNames |-> AbsentFile]
    /\ entry_cache = [e \in EntryNames |-> AbsentFile]
    /\ output = AbsentOutput
    /\ \E c \in OutputCachers : collector = [cacher |-> c, st_mtime |-> _update_st_mtime(AbsentOutput)]
    /\ collected = NoCollect
    /\ ManagerAtRest
    /\ ReaderAtRest

CollectorTick ==
    /\ now < MaxTime
    /\ now' = now + 1
    /\ collected' = NoCollect
    /\ UNCHANGED <<entries, entry_cache, output, collector>>
    /\ UNCHANGED <<strategyVars, managerVars, readerVars>>

\* Somebody adds workbook e to root_dir.
AddEntry ==
    /\ \E e \in FileNames : \E d \in Workbooks :
          /\ ~entries[e].exists
          /\ entries' = [entries EXCEPT ![e] = [exists |-> TRUE, data |-> d, mtime |-> now]]
    /\ collected' = NoCollect
    /\ UNCHANGED <<now, entry_cache, output, collector>>
    /\ UNCHANGED <<strategyVars, managerVars, readerVars>>

\* Something changes inside the folder whose name matches the pattern.
TouchFolder ==
    /\ \E e \in FolderNames :
          entries' = [entries EXCEPT ![e] = [exists |-> TRUE, data |-> NoData, mtime |-> now]]
    /\ collected' = NoCollect
    /\ UNCHANGED <<now, entry_cache, output, collector>>
    /\ UNCHANGED <<strategyVars, managerVars, readerVars>>

\* collector.collect() ran to its end: default strategy, every workbook readable.
Collect ==
    /\ \E wr \in WriteOutcomes :
       \E r \in {collect(collector, entries, entry_cache, output, "CHECK_CACHE", {}, wr, now)} :
          /\ collected' = r.obs
          /\ output' = r.output
          /\ entry_cache' = r.entry_cache
          /\ collector' = [collector EXCEPT !.st_mtime = r.st_mtime]
    /\ UNCHANGED <<now, entries>>
    /\ UNCHANGED <<strategyVars, managerVars, readerVars>>

CollectNext ==
    \/ CollectorTick
    \/ AddEntry
    \/ TouchFolder
    \/ Collect

CollectSpec == CollectInit /\ [][CollectNext]_vars

\* ---- ExcelCollector over workbooks that may fail to read -----------------
\* The workbooks root_dir holds from the start.
Present == {"jan", "feb"}

\* ExcelCollector(root_dir) with the default output_cacher on a root_dir that
\* holds the workbooks in Present, and an empty cache_dir.
FailInit ==
    /\ now = 1
    /\ source = AbsentFile
    /\ cache = AbsentFile
    /\ cacher = DEFAULT_CACHER
    /\ call = NoCall
    /\ since = {}
    /\ probe = NoProbe
    /\ entries \in {es \in [EntryNames -> [exists : BOOLEAN, data : Workbooks, mtime : {0}]] :
                      \A e \in EntryNames : IF e \in Present THEN es[e].exists
                                            ELSE es[e] = AbsentFile}
    /\ entry_cache = [e \in EntryNames |-> AbsentFile]
    /\ output = AbsentOutput
    /\ collector = [cacher |-> DEFAULT_CACHER, st_mtime |-> _update_st_mtime(AbsentOutput)]
    /\ collected = NoCollect
    /\ ManagerAtRest
    /\ ReaderAtRest

\* The workbook somebody keeps working on while the others stay as they are.
Edited == {"jan"}

\* Somebody saves workbook e again, with new content.
SaveEntry ==
    /\ \E e \in Edited : \E d \in Workbooks :
          entries' = [entries EXCEPT ![e] = [exists |-> TRUE, data |-> d, mtime |-> now]]
    /\ collected' = NoCollect
    /\ UNCHANGED <<now, entry_cache, output, collector>>
    /\ UNCHANGED <<strategyVars, managerVars, readerVars>>

\* The workbooks pd.read_excel may raise on: any of those a collection would read.
CanFail(col, es, output_file) ==
    IF _should_collect(col, es, output_file)
    THEN SUBSET {e \in glob(es) : is_file(e)} ELSE {{}}

\* collector.collect(strategy=s) ran to its end, pd.read_excel raising on the
\* workbooks in failing.
CollectUnder ==
    /\ \E s \in Strategies :
       \E failing \in CanFail(collector, entries, output) :
       \E wr \in WriterCanYield(IF failing = {} THEN "ok" ELSE "IOError") :
       \E r \in {collect(collector, entries, entry_cache, output, s, failing, wr, now)} :
          /\ collected' = r.obs
          /\ output' = r.output
          /\ entry_cache' = r.entry_cache
          /\ collector' = [collector EXCEPT !.st_mtime = r.st_mtime]
    /\ UNCHANGED <<now, entries>>
    /\ UNCHANGED <<strategyVars, managerVars, readerVars>>

FailNext ==
    \/ CollectorTick
    \/ SaveEntry
    \/ CollectUnder

CollectFailSpec == FailInit /\ [][FailNext]_vars

\* ---- CacheManager over a directory tree ---------------------------------
\* What a caller passes as root_dir: two directories, a regular file, a path
\* that is not there.
RootDirs == {<<Name("data")>>, <<Name("work")>>}
RootArgs == RootDirs \cup {<<Name("notes")>>, <<Name("gone")>>}

\* Files some cacher writes into the cache directory.
CacheFileNames == {"jan", "feb", "all"}

\* What a caller passes as cache_file: a bare name, a name under a sub-folder,
\* the Path of a source workbook.
LogicalNames ==
    {[kind |-> "str", parts |-> <<Name("report")>>],
     [kind |-> "str", parts |-> <<Name("q1"), Name("report")>>],
     [kind |-> "Path", parts |-> <<Name("data"), [Name("report") EXCEPT !.ext = <<".xlsx">>]>>]}

\* cacher.suffix
Suffixes == {".parquet", ".csv"}

\* The orders in which iterdir can yield the entries S.
Orders(S) ==
    {o \in [1 .. Cardinality(S) -> S] : \A i, j \in DOMAIN o : i # j => o[i] # o[j]}

ManagerInit ==
    /\ now = 1
    /\ source = AbsentFile
    /\ cache = AbsentFile
    /\ cacher = DEFAULT_CACHER
    /\ call = NoCall
    /\ since = {}
    /\ probe = NoProbe
    /\ CollectorAtRest
    /\ ReaderAtRest
    /\ disk = Tree(RootDirs, {<<Name("notes")>>}, {})
    /\ manager = NoManager
    /\ returned = NoReturn

\* The record of a call: its result, and the tree it started from.
Call(op, args, r) ==
    [NoReturn EXCEPT !.op = op, !.args = args, !.outcome = r.outcome, !.error = r.error,
                     !.value = r.value, !.before = disk]

\* manager = CacheManager(root_dir, cache_dir, cache_resolver=resolver)
NewManager ==
    /\ ~manager.built
    /\ \E root_dir \in RootArgs : \E cache_dir \in Hints : \E resolver \in ResolveStrategies :
       \E r \in {CacheManager(disk, root_dir, cache_dir, resolver)} :
          /\ manager' = r.manager
          /\ disk' = r.disk
          /\ returned' = Call("CacheManager", <<root_dir, cache_dir, resolver>>, r)
    /\ UNCHANGED <<now, strategyVars, collectorVars, readerVars>>

SetRootDir ==
    /\ manager.built
    /\ \E root_dir \in RootArgs : \E r \in {set_root_dir(manager, disk, root_dir)} :
          /\ manager' = r.manager
          /\ disk' = r.disk
          /\ returned' = Call("root_dir", <<root_dir>>, r)
    /\ UNCHANGED <<now, strategyVars, collectorVars, readerVars>>

SetCacheDir ==
    /\ manager.built
    /\ \E cache_dir \in Hints : \E r \in {set_cache_dir(manager, disk, cache_dir)} :
          /\ manager' = r.manager
          /\ disk' = r.disk
          /\ returned' = Call("cache_dir", <<cache_dir>>, r)
    /\ UNCHANGED <<now, strategyVars, collectorVars, readerVars>>

SetCacheResolver ==
    /\ manager.built
    /\ \E resolver \in ResolveStrategies :
       \E r \in {set_cache_resolver(manager, disk, resolver)} :
          /\ manager' = r.manager
          /\ disk' = r.disk
          /\ returned' = Call("cache_resolver", <<resolver>>, r)
    /\ UNCHANGED <<now, strategyVars, collectorVars, readerVars>>

\* manager.output_path(cache_file, cacher)
OutputPath ==
    /\ manager.built
    /\ \E cache_file \in LogicalNames : \E suffix \in Suffixes :
          returned' = Call("output_path", <<cache_file, suffix>>,
                           Ended("returned", "none", output_path(manager, cache_file, suffix),
                                 disk))
    /\ UNCHANGED <<disk, manager>>
    /\ UNCHANGED <<now, strategyVars, collectorVars, readerVars>>

ManagerNext ==
    \/ NewManager
    \/ SetRootDir
    \/ SetCacheDir
    \/ SetCacheResolver
    \/ OutputPath

ManagerSpec == ManagerInit /\ [][ManagerNext]_vars

\* ---- clear_cache over a cache directory that fills up --------------------
\* manager = CacheManager(root_dir, cache_dir) with a hint that is absent or dotted.
ClearInit ==
    /\ now = 1
    /\ source = AbsentFile
    /\ cache = AbsentFile
    /\ cacher = DEFAULT_CACHER
    /\ call = NoCall
    /\ since = {}
    /\ probe = NoProbe
    /\ CollectorAtRest
    /\ ReaderAtRest
    /\ \E root_dir \in RootDirs : \E cache_dir \in {NoHint, <<DotName("store")>>} :
       \E r \in {CacheManager(Tree(RootDirs, {}, {}), root_dir, cache_dir,
                              DEFAULT_RESOLVE_STRATEGY)} :
          /\ manager = r.manager
          /\ disk = r.disk
    /\ returned = NoReturn

\* Some cacher writes a file into the manager's cache directory; the operating
\* system may later refuse to remove it.
SaveCacheFile ==
    /\ manager.built /\ is_dir(disk, manager.cache_dir)
    /\ Cardinality(disk.files) < MaxCacheFiles
    /\ \E n \in CacheFileNames : \E keep \in BOOLEAN :
          LET f == Join(manager.cache_dir, <<Name(n)>>)
          IN  /\ ~exists(disk, f)
              /\ disk' = Tree(disk.dirs, disk.files \cup {f},
                              IF keep THEN disk.locked \cup {f} ELSE disk.locked)
    /\ returned' = NoReturn
    /\ UNCHANGED manager
    /\ UNCHANGED <<now, strategyVars, collectorVars, readerVars>>

\* manager.clear_cache()
ClearCache ==
    /\ manager.built
    /\ \E order \in Orders(iterdir(disk, manager.cache_dir)) :
       \E r \in {clear_cache(manager, disk, order)} :
          /\ disk' = r.disk
          /\ returned' = Call("clear_cache", order, r)
    /\ UNCHANGED manager
    /\ UNCHANGED <<now, strategyVars, collectorVars, readerVars>>

ClearNext ==
    \/ SaveCacheFile
    \/ ClearCache

ClearSpec == ClearInit /\ [][ClearNext]_vars

\* ---- RESOLVE_TO_ROOT called again and again -----------------------------
ResolveInit ==
    /\ now = 1
    /\ source = AbsentFile
    /\ cache = AbsentFile
    /\ cacher = DEFAULT_CACHER
    /\ call = NoCall
    /\ since = {}
    /\ probe = NoProbe
    /\ CollectorAtRest
    /\ ReaderAtRest
    /\ disk = Tree(RootDirs, {}, {})
    /\ manager = NoManager
    /\ returned = NoReturn

\* RESOLVE_TO_ROOT(root_dir, cache_dir); the record says whether the call before
\* it had the same arguments, and what that one returned.
ResolveToRoot ==
    /\ \E root_dir \in RootDirs : \E cache_dir \in Hints :
       \E r \in {_resolve_to_root(disk, root_dir, cache_dir)} :
          /\ disk' = r.disk
          /\ returned' =
                [Call("RESOLVE_TO_ROOT", <<root_dir, cache_dir>>, r) EXCEPT
                    !.again = /\ returned.op = "RESOLVE_TO_ROOT"
                              /\ returned.args = <<root_dir, cache_dir>>
                              /\ returned.outcome = "returned",
                    !.first = returned.value]
    /\ UNCHANGED manager
    /\ UNCHANGED <<now, strategyVars, collectorVars, readerVars>>

\* Some cacher writes a file into a hidden folder of a root directory.
SaveHiddenFile ==
    /\ Cardinality(disk.files) < MaxCacheFiles
    /\ \E dir \in disk.dirs : \E n \in CacheFileNames :
          LET f == Join(dir, <<Name(n)>>)
          IN  /\ Len(dir) > 1 /\ NameOf(dir).dot
              /\ ~exists(disk, f)
              /\ disk' = Tree(disk.dirs, disk.files \cup {f}, disk.locked)
    /\ returned' = [NoReturn EXCEPT !.op = returned.op, !.args = returned.args,
                                    !.outcome = returned.outcome, !.value = returned.value,
                                    !.before = disk]
    /\ UNCHANGED manager
    /\ UNCHANGED <<now, strategyVars, collectorVars, readerVars>>

ResolveNext ==
    \/ ResolveToRoot
    \/ SaveHiddenFile

ResolveSpec == ResolveInit /\ [][ResolveNext]_vars

\* ---- CachedExcelReader._map_paths over workbooks and sheet selectors ------
\* One reader with its root_dir and cache_dir, one cacher; every call names a
\* workbook and a sheet.
MapInputs ==
    {InputFile(k, "root", n, e) : k \in {"str", "Path"}, n \in Texts(MaxStem), e \in ExcelSuffixes}

MapCall(input_file, sheet_name, cacher_suffix) ==
    LET r == _map_paths("root", "cache", input_file, sheet_name, cacher_suffix)
    IN  [input_file |-> input_file, sheet_name |-> sheet_name,
         cacher_suffix |-> cacher_suffix,
         stem |-> stem([r.input_file EXCEPT !.kind = "Path"]),
         cache_file |-> r.cache_file]

StrategiesAtRest ==
    /\ now = 1
    /\ source = AbsentFile
    /\ cache = AbsentFile
    /\ cacher = [pre |-> <<>>, post |-> <<>>]
    /\ call = NoCall
    /\ since = {}
    /\ probe = NoProbe

MapInit ==
    /\ CollectorAtRest
    /\ ManagerAtRest
    /\ ReadingAtRest
    /\ StrategiesAtRest
    /\ \E i \in MapInputs, sn \in SheetSelectors, sfx \in CacherSuffixes :
           mapped = MapCall(i, sn, sfx)

MapPaths ==
    /\ \E i \in MapInputs, sn \in SheetSelectors :
           mapped' = MapCall(i, sn, mapped.cacher_suffix)
    /\ UNCHANGED <<now, strategyVars, collectorVars, managerVars>>
    /\ UNCHANGED <<workbook, excel_reader, sheet_cache, reading, applied, pool>>

MapNext == MapPaths

MapSpec == MapInit /\ [][MapNext]_vars

\* ---- CachedExcelReader.read_excel over one workbook ----------------------
\* The workbook lies in the reader's root_dir, which is the working directory or
\* another one; callers name it by Path, by file name or by stem.
SheetLists ==
    {s \in UNION {[1 .. k -> [name : WorkbookSheetNames, data : Dataset]] : k \in 1 .. MaxSheets} :
        \A i, j \in 1 .. Len(s) : s[i].name = s[j].name => i = j}

ReadInputs(rd) ==
    {InputFile("Path", rd.root_dir, WorkbookStem, ".xlsx"),
     InputFile("str", "cwd", WorkbookStem, ".xlsx"),
     InputFile("str", "cwd", WorkbookStem, "")}

\* The strategies the reads are made with: one that serves hits, one that never does.
ReadStrategies == {"CHECK_CACHE", "FORCE_CACHE_UPDATE"}

ReadInit ==
    /\ CollectorAtRest
    /\ ManagerAtRest
    /\ now = 1
    /\ source = AbsentFile
    /\ cache = AbsentFile
    /\ cacher \in {DEFAULT_CACHER, [pre |-> <<"inc">>, post |-> <<"inc">>]}
    /\ call = NoCall
    /\ since = {}
    /\ probe = NoProbe
    /\ mapped = NoMap
    /\ applied = NotApplied
    /\ pool = NoPool
    /\ excel_reader \in [root_dir : {"cwd", "data"}, cache_dir : {"cache"}]
    /\ \E s \in SheetLists :
           workbook = [exists |-> TRUE,
                       path |-> InputFile("Path", excel_reader.root_dir, WorkbookStem, ".xlsx"),
                       mtime |-> 0, sheets |-> s]
    /\ sheet_cache = [n \in CacheNames |-> AbsentFile]
    /\ reading = NoReading

\* Somebody edits one sheet and saves the workbook.
SaveWorkbook ==
    /\ \E i \in 1 .. Len(workbook.sheets), d \in Dataset :
           workbook' = [workbook EXCEPT !.mtime = now, !.sheets[i].data = d]
    /\ reading' = NoReading
    /\ UNCHANGED <<mapped, excel_reader, sheet_cache, applied, pool>>
    /\ UNCHANGED <<now, strategyVars, collectorVars, managerVars>>

\* reader.read_excel(input_file, i, cacher=cacher, strategy=strategy): a sheet by position
ReadSheet ==
    /\ \E input_file \in ReadInputs(excel_reader), strategy \in ReadStrategies,
          sheet_name \in {SheetIndex(i) : i \in 0 .. (MaxSheets - 1)} :
         \E r \in {read_sheet(excel_reader, workbook, sheet_cache, input_file, sheet_name,
                              strategy, cacher, now)} :
           /\ reading' = [NoReading EXCEPT
                             !.op = "one", !.input_file = input_file,
                             !.sheet_name = sheet_name, !.strategy = strategy,
                             !.cacher = cacher, !.outcome = r.call.outcome,
                             !.error = r.call.error, !.reads = <<r>>, !.opens = r.opens]
           /\ sheet_cache' = [sheet_cache EXCEPT ![r.cache_name] = r.call.file]
    /\ UNCHANGED <<mapped, workbook, excel_reader, applied, pool>>
    /\ UNCHANGED <<now, strategyVars, collectorVars, managerVars>>

\* reader.read_excel(input_file, None, cacher=cacher, strategy=strategy)
ReadAllSheets ==
    /\ \E input_file \in ReadInputs(excel_reader), strategy \in ReadStrategies :
         \E r \in {read_excel_all(excel_reader, workbook, sheet_cache, input_file, strategy,
                                  cacher, now)} :
           /\ reading' = r.reading
           /\ sheet_cache' = r.caches
    /\ UNCHANGED <<mapped, workbook, excel_reader, applied, pool>>
    /\ UNCHANGED <<now, strategyVars, collectorVars, managerVars>>

ReadNext ==
    \/ SaveWorkbook
    \/ ReadSheet
    \/ ReadAllSheets

ReadSpec == ReadInit /\ [][ReadNext]_vars

\* ---- one Cacher: construction, registrations, pipeline runs --------------
PipelineInit ==
    /\ CollectorAtRest
    /\ ManagerAtRest
    /\ now = 1
    /\ source = AbsentFile
    /\ cache = AbsentFile
    /\ call = NoCall
    /\ since = {}
    /\ probe = NoProbe
    /\ mapped = NoMap
    /\ pool = NoPool
    /\ workbook = NoWorkbook
    /\ excel_reader = [root_dir |-> "cwd", cache_dir |-> "cache"]
    /\ sheet_cache = [n \in CacheNames |-> AbsentFile]
    /\ reading = NoReading
    /\ \E kind \in {"ParquetCacher", "CSVCacher"}, a \in Supplied, b \in Supplied :
           /\ cacher = Cacher(a, b)
           /\ applied = [NotApplied EXCEPT !.kind = kind, !.supplied_pre = a.procs,
                                           !.supplied_post = b.procs]

Registrations == Len(applied.registered_pre) + Len(applied.registered_post)

\* cacher.register_pre_process(p)
RegisterPre ==
    /\ Registrations < MaxRegistered
    /\ \E p \in Processors :
           /\ cacher' = register_pre_process(cacher, p)
           /\ applied' = [applied EXCEPT !.registered_pre = Append(@, p), !.op = "register"]
    /\ UNCHANGED <<now, source, cache, call, since, probe>>
    /\ UNCHANGED <<mapped, workbook, excel_reader, sheet_cache, reading, pool>>
    /\ UNCHANGED <<collectorVars, managerVars>>

\* cacher.register_post_process(p)
RegisterPost ==
    /\ Registrations < MaxRegistered
    /\ \E p \in Processors :
           /\ cacher' = register_post_process(cacher, p)
           /\ applied' = [applied EXCEPT !.registered_post = Append(@, p), !.op = "register"]
    /\ UNCHANGED <<now, source, cache, call, since, probe>>
    /\ UNCHANGED <<mapped, workbook, excel_reader, sheet_cache, reading, pool>>
    /\ UNCHANGED <<collectorVars, managerVars>>

\* cacher.pre_process(df)
PreProcess ==
    /\ \E f \in Frames :
           applied' = [applied EXCEPT !.op = "pre_process", !.df = f,
                                      !.result = frame_pre_process(applied.kind, cacher, f)]
    /\ UNCHANGED <<now, strategyVars, collectorVars, managerVars>>
    /\ UNCHANGED <<mapped, workbook, excel_reader, sheet_cache, reading, pool>>

\* cacher.post_process(df)
PostProcess ==
    /\ \E f \in Frames :
           applied' = [applied EXCEPT !.op = "post_process", !.df = f,
                                      !.result = frame_post_process(applied.kind, cacher, f)]
    /\ UNCHANGED <<now, strategyVars, collectorVars, managerVars>>
    /\ UNCHANGED <<mapped, workbook, excel_reader, sheet_cache, reading, pool>>

PipelineNext ==
    \/ RegisterPre
    \/ RegisterPost
    \/ PreProcess
    \/ PostProcess

PipelineSpec == PipelineInit /\ [][PipelineNext]_vars

\* ---- writes that fail ------------------------------------------------------
\* Either one source with its cache entry and the writing strategies, or a
\* root_dir with workbooks and the collector; every write may succeed, be rejected,
\* or fail with the file open.
WritingStrategies == {"CHECK_CACHE", "FALLBACK_TO_CACHE", "FORCE_CACHE_UPDATE"}
AllWriteOutcomes == {"ok"} \cup WriteFailures

WriteInit ==
    /\ ManagerAtRest
    /\ ReaderAtRest
    /\ now = 1
    /\ cacher = DEFAULT_CACHER
    /\ call = NoCall
    /\ since = {}
    /\ probe = NoProbe
    /\ cache = AbsentFile
    /\ entry_cache = [e \in EntryNames |-> AbsentFile]
    /\ output = AbsentOutput
    /\ collector = [cacher |-> DEFAULT_CACHER, st_mtime |-> _update_st_mtime(AbsentOutput)]
    /\ collected = NoCollect
    /\ \/ /\ source \in [exists : {TRUE}, data : Dataset, mtime : {0}]
          /\ entries = [e \in EntryNames |-> AbsentFile]
       \/ /\ source = AbsentFile
          /\ entries \in {es \in [EntryNames -> [exists : BOOLEAN, data : Workbooks, mtime : {0}]] :
                            \A e \in EntryNames : IF e \in Present THEN es[e].exists
                                                  ELSE es[e] = AbsentFile}

WriteClock ==
    /\ now < MaxTime
    /\ now' = now + 1
    /\ probe' = NoProbe
    /\ collected' = NoCollect
    /\ UNCHANGED <<source, cache, cacher, call, since>>
    /\ UNCHANGED <<entries, entry_cache, output, collector>>
    /\ UNCHANGED <<managerVars, readerVars>>

\* Somebody saves the source workbook.
EditSource ==
    /\ source.exists
    /\ \E d \in Dataset : source' = [exists |-> TRUE, data |-> d, mtime |-> now]
    /\ probe' = NoProbe
    /\ UNCHANGED <<now, cache, cacher, call, since>>
    /\ UNCHANGED <<collectorVars, managerVars, readerVars>>

\* Somebody saves a workbook of root_dir.
EditEntry ==
    /\ \E e \in Edited : \E d \in Workbooks :
          /\ entries[e].exists
          /\ entries' = [entries EXCEPT ![e] = [exists |-> TRUE, data |-> d, mtime |-> now]]
    /\ collected' = NoCollect
    /\ UNCHANGED <<now, entry_cache, output, collector>>
    /\ UNCHANGED <<strategyVars, managerVars, readerVars>>

\* A writing strategy ran on the source, its write ending as wr.
StrategyWrites ==
    /\ source.exists
    /\ cache.data # Truncated
    /\ \E s \in WritingStrategies, wr \in AllWriteOutcomes :
       \E r \in {read_excel(s, source, cache, cacher, "ok", wr, now)} :
          /\ call' = r
          /\ cache' = r.file
    /\ probe' = StrategyReturned
    /\ UNCHANGED <<now, source, cacher, since>>
    /\ UNCHANGED <<collectorVars, managerVars, readerVars>>

\* collector.collect() ran, the write of the aggregate ending as wr.
CollectorWrites ==
    /\ \E e \in FileNames : entries[e].exists
    /\ ~(output.exists /\ output.data = TruncatedRows)
    /\ \E wr \in AllWriteOutcomes :
       \E r \in {collect(collector, entries, entry_cache, output, "CHECK_CACHE", {}, wr, now)} :
          /\ collected' = r.obs
          /\ output' = r.output
          /\ entry_cache' = r.entry_cache
          /\ collector' = [collector EXCEPT !.st_mtime = r.st_mtime]
    /\ UNCHANGED <<now, entries>>
    /\ UNCHANGED <<strategyVars, managerVars, readerVars>>

\* Somebody deletes the file a failed write left.
DiscardCacheFile ==
    /\ cache.exists /\ cache.data = Truncated
    /\ cache' = AbsentFile
    /\ probe' = NoProbe
    /\ UNCHANGED <<now, source, cacher, call, since>>
    /\ UNCHANGED <<collectorVars, managerVars, readerVars>>

DiscardAggregate ==
    /\ output.exists /\ output.data = TruncatedRows
    /\ output' = AbsentOutput
    /\ collector' = [collector EXCEPT !.st_mtime = 0]
    /\ collected' = NoCollect
    /\ UNCHANGED <<now, entries, entry_cache>>
    /\ UNCHANGED <<strategyVars, managerVars, readerVars>>

WriteNext ==
    \/ WriteClock
    \/ EditSource
    \/ EditEntry
    \/ StrategyWrites
    \/ CollectorWrites
    \/ DiscardCacheFile
    \/ DiscardAggregate

WriteSpec == WriteInit /\ [][WriteNext]_vars

\* ---- one collect() and its pool of worker processes -----------------------
\* pool.map hands every entry to a worker process; a worker's strategy call is
\* the test of cache_hit followed by the read or the write it decides on, and the
\* workers run side by side.  The coordinating process goes on when pool.map has
\* returned every frame.
PoolInit ==
    /\ CollectorAtRest
    /\ ManagerAtRest
    /\ StrategiesAtRest
    /\ mapped = NoMap
    /\ applied = NotApplied
    /\ workbook = NoWorkbook
    /\ excel_reader = [root_dir |-> "cwd", cache_dir |-> "cache"]
    /\ sheet_cache = [n \in CacheNames |-> AbsentFile]
    /\ reading = NoReading
    /\ \E files \in SUBSET PoolFiles, g \in GlobPatterns, sn \in PoolSheets,
          n \in OutputNames, sfx \in CacherSuffixes :
           pool = [NoPool EXCEPT !.files = files, !.glob_pattern = g, !.sheet_name = sn,
                                 !.output_path = _update_output_path("cache", n, sfx)]

PoolUnchanged ==
    /\ UNCHANGED <<now, strategyVars, collectorVars, managerVars>>
    /\ UNCHANGED <<mapped, workbook, excel_reader, sheet_cache, reading, applied>>

\* _perform_collect lists the entries and calls pool.map(read_func, entries).
StartCollect ==
    /\ pool.phase = "idle"
    /\ LET es == pool_entries(pool.files, pool.glob_pattern, pool.output_path)
       IN  pool' = [pool EXCEPT !.phase = "mapping", !.entries = es,
                                !.pc = [f \in PoolFiles |-> IF f \in es THEN "queued" ELSE "none"]]
    /\ PoolUnchanged

\* A worker evaluates cacher.cache_hit(input_file, cache_file) for its entry.
WorkerChecks ==
    /\ \E e \in pool.entries :
         /\ pool.pc[e] = "queued"
         /\ LET q == worker_cache_file("cache", e, pool.sheet_name)
                src == [exists |-> TRUE, data |-> e, mtime |-> 0]
            IN  pool' = [pool EXCEPT !.pc[e] = "checked", !.seen[e] = pool.stored[q],
                                     !.hit[e] = (cache_hit(src, pool.stored[q]) = "hit")]
    /\ PoolUnchanged

\* The worker acts on what it found: reads the cache file, or reads the workbook
\* and writes the cache file.
WorkerActs ==
    /\ \E e \in pool.entries :
         /\ pool.pc[e] = "checked"
         /\ LET q == worker_cache_file("cache", e, pool.sheet_name)
            IN  IF pool.hit[e]
                THEN pool' = [pool EXCEPT !.pc[e] = "done"]
                ELSE pool' = [pool EXCEPT
                                 !.pc[e] = "done",
                                 !.stored[q] = [exists |-> TRUE, data |-> e, mtime |-> now],
                                 !.writes = @ \cup {<<e, q>>}]
    /\ PoolUnchanged

\* pool.map has returned; self.cacher.write_cache(self.output_path, collected)
CoordinatorWrites ==
    /\ pool.phase = "mapping"
    /\ pool.entries # {}
    /\ \A e \in pool.entries : pool.pc[e] = "done"
    /\ pool' = [pool EXCEPT
                   !.phase = "collected",
                   !.stored[pool.output_path] =
                       [exists |-> TRUE, data |-> Coordinator, mtime |-> now],
                   !.writes = @ \cup {<<Coordinator, pool.output_path>>}]
    /\ PoolUnchanged

PoolNext ==
    \/ StartCollect
    \/ WorkerChecks
    \/ WorkerActs
    \/ CoordinatorWrites

PoolSpec == PoolInit /\ [][PoolNext]_vars

TypeOK ==
    /\ now \in 1 .. MaxTime
    /\ source.mtime \in 0 .. MaxTime
    /\ cache.mtime \in 0 .. MaxTime
    /\ cache.data \in Dataset \cup {Truncated}
    /\ call.strategy \in Strategies \cup {"none"}
    /\ call.outcome \in {"returned", "raised"}

\* ---- properties ---------------------------------------------------------
\* The state right after a call of strategy s: the cacher and the cache file are
\* those the call saw and left.
JustCalled(s) == probe.op = "strategy" /\ call.strategy = s

\* C1: cache_hit(source, cache) is true iff the cache file exists and the
\* source's modification time is strictly less than the cache file's; a missing
\* cache file and equal modification times are both a miss; cache_miss is the
\* negation of cache_hit.  (Stated where both mtimes the comparison needs can be
\* read: the source exists or the cache file does not.)
C1_CacheHitIffStrictlyNewer ==
    (probe.op = "cache_hit" /\ (probe.source.exists \/ ~probe.cache.exists)) =>
        /\ probe.hit \in {"hit", "miss"}
        /\ (probe.hit = "hit") <=>
              (probe.cache.exists /\ probe.source.mtime < probe.cache.mtime)
        /\ ~probe.cache.exists => probe.hit = "miss"
        /\ (probe.cache.exists /\ probe.source.mtime = probe.cache.mtime) =>
              probe.hit = "miss"
        /\ probe.miss \in {"hit", "miss"} /\ probe.miss # probe.hit

\* C1 witness: cache_hit was evaluated on an existing cache file whose mtime
\* equals the source's, and on that it answered miss.
C1_Witness ==
    /\ probe.op = "cache_hit"
    /\ probe.cache.exists /\ probe.source.exists
    /\ probe.source.mtime = probe.cache.mtime
    /\ probe.hit = "miss"

\* C2: under CHECK_CACHE on a hit the call returns the stored dataset with the
\* post-process transforms folded over it once, in registration order, without
\* invoking the thunk or writing the cache file.
C2_HitReturnsPostProcessedOnce ==
    (JustCalled("CHECK_CACHE") /\ call.hit = "hit") =>
        /\ call.outcome = "returned"
        /\ call.result = ApplyAll(cacher.post, call.cacheBefore.data)
        /\ call.thunkCalls = 0
        /\ call.cacheWrites = 0
        /\ cache = call.cacheBefore

\* C3: under CHECK_CACHE on a miss with a successful fresh read (and an accepted
\* write) the thunk runs once, the pre-process pipeline runs once over the fresh
\* dataset, the entry holds that pre-processed dataset, and the call returns
\* post-process of the same dataset.
C3_MissWritesPreProcessedOnce ==
    (/\ JustCalled("CHECK_CACHE") /\ call.hit = "miss"
     /\ call.thunk = "ok" /\ call.error # "SerializationFailure") =>
        /\ call.thunkCalls = 1
        /\ call.cacheWrites = 1
        /\ cache.exists
        /\ cache.data = ApplyAll(cacher.pre, call.fresh)
        /\ call.outcome = "returned"
        /\ call.result = ApplyAll(cacher.post, ApplyAll(cacher.pre, call.fresh))

\* C4: under FALLBACK_TO_CACHE, on a miss whose fresh read raises, the call
\* returns the dataset of the cache file whenever that file exists and raises
\* the thunk's own error iff it does not; the cache file is not written.
C4_FallbackRecoversFromCache ==
    (/\ JustCalled("FALLBACK_TO_CACHE") /\ call.hit = "miss"
     /\ call.thunk \in ReadErrors) =>
        /\ call.thunkCalls = 1
        /\ call.cacheWrites = 0
        /\ cache = call.cacheBefore
        /\ call.cacheBefore.exists =>
              /\ call.outcome = "returned"
              /\ call.cacheReads = 1
              /\ (cacher.post = <<>> => call.result = call.cacheBefore.data)
        /\ (call.outcome = "raised") <=> ~call.cacheBefore.exists
        /\ call.outcome = "raised" => call.error = call.thunk

\* C4 witness: a fallback call recovered from a stale, non-trivial cache file.
C4_Witness ==
    /\ JustCalled("FALLBACK_TO_CACHE") /\ call.hit = "miss"
    /\ call.thunk \in ReadErrors
    /\ call.cacheBefore.exists /\ call.cacheBefore.data # NoData
    /\ call.outcome = "returned"

\* C5: FROM_CACHE never invokes the fresh-read thunk; it returns post-process of
\* the dataset read from the cache file, whatever the source's state.
C5_FromCacheReadsOnlyCache ==
    JustCalled("FROM_CACHE") =>
        /\ call.thunkCalls = 0
        /\ call.cacheBefore.exists =>
              /\ call.outcome = "returned"
              /\ call.cacheReads = 1
              /\ call.result = ApplyAll(cacher.post, call.cacheBefore.data)

\* C6: repeated FROM_CACHE calls against an unchanged, existing cache file (and
\* an unchanged cacher) all return the same dataset, and each call leaves the
\* cache file's existence, content and modification time unchanged.
C6_FromCacheRepeatable ==
    [][(/\ call.strategy = "FROM_CACHE" /\ call'.strategy = "FROM_CACHE"
        /\ probe'.op = "strategy" /\ "cacher" \notin since
        /\ cache.exists) =>
          /\ call'.outcome = call.outcome
          /\ call'.result = call.result
          /\ cache' = cache]_vars

\* C7: SKIP_CACHE always invokes the thunk and never reads or writes the cache
\* file: the entry is the same after the call as before, also when the thunk
\* raises.
C7_SkipCacheLeavesEntryAlone ==
    JustCalled("SKIP_CACHE") =>
        /\ call.thunkCalls = 1
        /\ call.cacheReads = 0
        /\ call.cacheWrites = 0
        /\ cache = call.cacheBefore

\* C7 witness: SKIP_CACHE ran on an existing entry and its thunk raised.
C7_Witness ==
    /\ JustCalled("SKIP_CACHE")
    /\ call.cacheBefore.exists
    /\ call.thunk \in ReadErrors
    /\ call.outcome = "raised"

\* C8: FORCE_CACHE_UPDATE on a hit entry still invokes the thunk, overwrites the
\* entry with the pre-processed fresh dataset and returns the fresh result.
C8_ForceUpdateOverwritesHit ==
    (/\ JustCalled("FORCE_CACHE_UPDATE")
     /\ source.exists /\ newer_cache(source, call.cacheBefore)
     /\ call.thunk = "ok" /\ call.error # "SerializationFailure") =>
        /\ call.thunkCalls = 1
        /\ call.cacheReads = 0
        /\ call.cacheWrites = 1
        /\ cache = [exists |-> TRUE, data |-> ApplyAll(cacher.pre, call.fresh), mtime |-> now]
        /\ call.outcome = "returned"
        /\ call.result = ApplyAll(cacher.post, ApplyAll(cacher.pre, call.fresh))

\* C9: when the thunk raises under CHECK_CACHE (on a miss), FORCE_CACHE_UPDATE
\* or SKIP_CACHE, the same error reaches the caller and the cache entry is
\* exactly as it was before the call.
C9_ReadFailurePropagates ==
    (/\ probe.op = "strategy"
     /\ call.strategy \in {"CHECK_CACHE", "FORCE_CACHE_UPDATE", "SKIP_CACHE"}
     /\ call.thunk \in ReadErrors) =>
        /\ call.outcome = "raised"
        /\ call.error = call.thunk
        /\ call.cacheWrites = 0
        /\ cache = call.cacheBefore

\* C9 witness: FORCE_CACHE_UPDATE raised the thunk's error over an existing entry.
C9_Witness ==
    /\ JustCalled("FORCE_CACHE_UPDATE")
    /\ call.thunk \in ReadErrors
    /\ call.error = call.thunk
    /\ call.cacheBefore.exists

\* A CHECK_CACHE call follows a CHECK_CACHE call that wrote the entry, with no
\* other call in between, and the source is there.
CheckAfterCaching ==
    /\ call.strategy = "CHECK_CACHE" /\ call.cacheWrites = 1
    /\ call'.strategy = "CHECK_CACHE" /\ probe'.op = "strategy"
    /\ source.exists

\* The call that just ran missed, invoked the thunk and, when the fresh read and
\* the write went through, rewrote the entry.
MissedAndRewrote ==
    /\ call'.hit = "miss"
    /\ call'.thunkCalls = 1
    /\ (call'.thunk = "ok" /\ call'.error # "SerializationFailure") =>
          (call'.cacheWrites = 1 /\ cache'.exists /\ cache'.mtime = now)

\* C10 (as claimed): after a CHECK_CACHE call wrote the entry, the following
\* CHECK_CACHE call is a hit without a thunk call if the source was not touched,
\* and a miss with a thunk call and a rewrite if it was.
C10_UntouchedHitsTouchedMisses ==
    [][CheckAfterCaching =>
          IF "source" \notin since
          THEN call'.hit = "hit" /\ call'.thunkCalls = 0
          ELSE MissedAndRewrote]_vars

\* C10 (amended): as above, where the untouched source's modification time is
\* strictly earlier than the written entry's.
C10_UntouchedOlderHitsTouchedMisses ==
    [][CheckAfterCaching =>
          IF "source" \notin since
          THEN source.mtime < cache.mtime =>
                  (call'.hit = "hit" /\ call'.thunkCalls = 0 /\ cache' = cache)
          ELSE MissedAndRewrote]_vars

\* C10 witness: a CHECK_CACHE call found an entry no newer than the source,
\* missed and rewrote it.
C10_Witness ==
    /\ JustCalled("CHECK_CACHE")
    /\ call.hit = "miss"
    /\ call.cacheBefore.exists
    /\ call.cacheWrites = 1
    /\ source.mtime >= call.cacheBefore.mtime

\* ---- properties of ExcelCollector ---------------------------------------
\* The state right after a collect(): the entries are those the call saw.
JustCollected == collected.op = "collect"

\* The rows with a value in them that a dataset of entry e has.
DataRows(e, df) == IF df = NoData THEN {} ELSE {<<e, df>>}

\* The rows with a value in them that workbook e holds.
RowsOf(e) == IF entries[e].exists THEN DataRows(e, entries[e].data) ELSE {}

C12_NewFileInvalidatesAggregate ==
    (JustCollected /\ collected.outputBefore.exists) =>
        \A c \in FileNames :
            (entries[c].exists /\ entries[c].mtime > collected.outputBefore.mtime) =>
                /\ collected.stale
                /\ collected.opened \cup collected.cacheReads =
                      {e \in FileNames : entries[e].exists}
                /\ collected.outcome = "returned" =>
                      /\ ApplyRows(collector.cacher.pre, RowsOf(c)) \subseteq collected.result
                      /\ collected.result =
                            ApplyRows(collector.cacher.pre,
                                      UNION {RowsOf(e) : e \in FileNames})

\* C12 witness: an aggregate held rows of two workbooks and none of a third; the
\* third, newer than the aggregate, was in root_dir when collect() ran, the other
\* two were not newer, and the result has a row of each of the three.
C12_Witness ==
    /\ JustCollected /\ collected.outcome = "returned" /\ collected.wrote
    /\ collected.outputBefore.exists
    /\ \E a \in FileNames : \E b \in FileNames \ {a} : \E c \in FileNames \ {a, b} :
          /\ \E r \in collected.outputBefore.data : r[1] = a
          /\ \E r \in collected.outputBefore.data : r[1] = b
          /\ ~\E r \in collected.outputBefore.data : r[1] = c
          /\ entries[a].mtime <= collected.outputBefore.mtime
          /\ entries[b].mtime <= collected.outputBefore.mtime
          /\ entries[c].mtime > collected.outputBefore.mtime
          /\ \A e \in {a, b, c} : \E r \in collected.result : r[1] = e

\* C13: when the aggregate exists and no workbook is newer than it, collect()
\* opens no workbook, reads and writes no per-entry cache file, leaves the
\* aggregate file as it is, and returns the rows the collect() that built the
\* aggregate returned, which are the rows that collect() wrote to the file.
C13_FreshAggregateServedUnchanged ==
    (JustCollected /\ ~collected.stale) =>
        /\ collected.outcome = "returned"
        /\ collected.opened = {} /\ collected.failed = {}
        /\ collected.cacheReads = {} /\ collected.cacheWrites = {}
        /\ ~collected.wrote /\ output = collected.outputBefore
        /\ collected.result = collected.outputBefore.data

\* C14: when pd.read_excel raises on a workbook during a collection run under
\* CHECK_CACHE, FORCE_CACHE_UPDATE or SKIP_CACHE, collect() raises and the
\* aggregate file is not written; under FALLBACK_TO_CACHE, when every workbook
\* that failed to read has a per-entry cache file, collect() returns and its
\* result holds the rows cached for each of them.
C14_ReadFailureAbortsUnlessFallback ==
    (JustCollected /\ collected.failed # {}) =>
        /\ collected.strategy \in {"CHECK_CACHE", "FORCE_CACHE_UPDATE", "SKIP_CACHE"} =>
              /\ collected.outcome = "raised"
              /\ ~collected.wrote /\ output = collected.outputBefore
        /\ (/\ collected.strategy = "FALLBACK_TO_CACHE"
            /\ \A e \in collected.failed : entry_cache[e].exists) =>
              /\ collected.outcome = "returned"
              /\ \A e \in collected.failed :
                    /\ e \in collected.cacheReads /\ e \notin collected.cacheWrites
                    /\ DataRows(e, entry_cache[e].data) \subseteq collected.result

\* C14 witness: under FALLBACK_TO_CACHE a workbook failed to read, its cache file
\* held a row the workbook no longer has, and the aggregate was written with it.
C14_Witness ==
    /\ JustCollected /\ collected.strategy = "FALLBACK_TO_CACHE"
    /\ collected.outcome = "returned" /\ collected.wrote
    /\ \E e \in collected.failed :
          /\ entry_cache[e].exists
          /\ entry_cache[e].data # entries[e].data
          /\ DataRows(e, entry_cache[e].data) # {}
          /\ DataRows(e, entry_cache[e].data) \subseteq output.data

\* C15: in a collection run a workbook whose cells are all missing contributes
\* no row to the result or to the aggregate file, and when no workbook with data
\* is left (none holds data, or none matches the pattern) collect() returns the
\* empty dataset without raising and writes nothing.
C15_BlankWorkbooksContributeNothing ==
    (JustCollected /\ collected.stale) =>
        /\ \A e \in FileNames :
              (entries[e].exists /\ entries[e].data = NoData) =>
                  /\ ~\E r \in collected.result : r[1] = e
                  /\ collected.wrote => ~\E r \in output.data : r[1] = e
        /\ (\A e \in FileNames : RowsOf(e) = {}) =>
              /\ collected.outcome = "returned"
              /\ collected.result = {}
              /\ ~collected.wrote /\ output = collected.outputBefore

\* C15 witness: a collection run read workbooks, all of them without data, and
\* returned the empty dataset.
C15_Witness ==
    /\ JustCollected /\ collected.stale
    /\ collected.opened # {}
    /\ \A e \in collected.opened : entries[e].data = NoData
    /\ collected.outcome = "returned" /\ collected.result = {}

\* ---- properties of CacheManager and the resolvers -----------------------
\* C16: whatever was assigned to root_dir, cache_dir and cache_resolver, the
\* manager's cache_dir is the path cache_resolver returns for the current
\* root_dir and the current raw hint.
C16_CacheDirFollowsSetters ==
    manager.built =>
        manager.cache_dir =
            Resolve(manager.cache_resolver, disk, manager.root_dir, manager.raw_cache_dir).value

\* C17 as stated: constructing a CacheManager on a root_dir that is missing, or
\* that is there but is not a directory, raises a not-found error, and nothing is
\* resolved or created.
C17_BadRootIsNotFound ==
    (returned.op = "CacheManager" /\ ~is_dir(returned.before, returned.args[1])) =>
        /\ returned.outcome = "raised" /\ returned.error = "FileNotFoundError"
        /\ ~manager.built /\ disk = returned.before

\* C17: constructing a CacheManager on a root_dir that is missing raises
\* FileNotFoundError, on one that is there but is not a directory TypeError; in
\* both cases no manager comes to be and nothing is resolved or created.
C17_BadRootRaisesBeforeResolving ==
    (returned.op = "CacheManager" /\ ~is_dir(returned.before, returned.args[1])) =>
        /\ returned.outcome = "raised"
        /\ returned.error = IF exists(returned.before, returned.args[1])
                            THEN "TypeError" ELSE "FileNotFoundError"
        /\ ~manager.built /\ disk = returned.before

\* C17 witness: a construction on a regular file raised TypeError.
C17_Witness ==
    /\ returned.op = "CacheManager"
    /\ exists(returned.before, returned.args[1]) /\ ~is_dir(returned.before, returned.args[1])
    /\ returned.outcome = "raised" /\ returned.error = "TypeError"
    /\ disk = returned.before

\* The entries of the manager's cache directory before the call just made.
EntriesBefore == iterdir(returned.before, manager.cache_dir)

\* C18: clear_cache() on a cache directory with entries that cannot be removed
\* returns, has removed every other entry, and hands the caller the list of the
\* entries it could not remove.
C18_ClearCacheToleratesLocked ==
    (returned.op = "clear_cache" /\ is_dir(returned.before, manager.cache_dir)) =>
        /\ returned.outcome = "returned"
        /\ iterdir(disk, manager.cache_dir) = EntriesBefore \cap returned.before.locked
        /\ {returned.value[i] : i \in DOMAIN returned.value} =
              EntriesBefore \cap returned.before.locked

\* C19: RESOLVE_TO_ROOT returns, and the path it returns is a directory on the
\* tree, lies under root_dir and has a dotted name; without a hint it is
\* root_dir/.cache; a call with the arguments of the call before it returns what
\* that one returned.
C19_ResolveToRootHiddenDirectory ==
    returned.op = "RESOLVE_TO_ROOT" =>
        /\ returned.outcome = "returned"
        /\ is_dir(disk, returned.value)
        /\ IsPrefix(returned.args[1], returned.value)
        /\ NameOf(returned.value).dot
        /\ returned.args[2] = NoHint =>
              returned.value = Join(returned.args[1], <<DotName("cache")>>)
        /\ returned.again => returned.value = returned.first

C21_OneFilePerStemAndSheet ==
    [][(mapped'.cache_file = mapped.cache_file)
        <=> (mapped'.stem = mapped.stem /\ mapped'.sheet_name = mapped.sheet_name)]_vars

\* ---- C22 ------------------------------------------------------------------
JustRead(op) == reading.op = op

\* The workbook is where a single-sheet read of input_file looks for it.
SingleReadable(input_file) ==
    /\ workbook.exists
    /\ as_path(_map_paths(excel_reader.root_dir, excel_reader.cache_dir, input_file,
                          SheetIndex(0), ".parquet").input_file) = workbook.path

\* The cache directory as one read of the sequence found it.
CachesBefore(r) ==
    [n \in CacheNames |-> IF n = r.cache_name THEN r.call.cacheBefore ELSE sheet_cache[n]]

\* C22: read_excel(input_file, None) of a workbook that single-sheet reads of
\* input_file find returns one value per sheet name of the workbook, each being what
\* the single-sheet read of that name does under the same cacher and strategy, and
\* no two sheets share a cache file.
C22_AllSheetsIsMapOfSingleReads ==
    (JustRead("all") /\ SingleReadable(reading.input_file)) =>
        /\ reading.outcome = "returned"
        /\ Len(reading.reads) = Len(workbook.sheets)
        /\ \A i \in 1 .. Len(reading.reads) :
             LET r == reading.reads[i]
                 one == read_sheet(excel_reader, workbook, CachesBefore(r), reading.input_file,
                                   SheetName(workbook.sheets[i].name), reading.strategy,
                                   reading.cacher, now)
             IN  /\ r.key = workbook.sheets[i].name
                 /\ r.cache_name = one.cache_name
                 /\ r.call = one.call
        /\ \A i, j \in 1 .. Len(reading.reads) :
             reading.reads[i].cache_name = reading.reads[j].cache_name => i = j

\* ---- C29 ------------------------------------------------------------------
\* C29: an all-sheets read that returns has opened the workbook once, for the
\* pd.ExcelFile handle; none of its per-sheet reads opens it again.
C29_AllSheetsOpensOnce ==
    (JustRead("all") /\ reading.outcome = "returned") =>
        /\ reading.opens = 1
        /\ \A i \in 1 .. Len(reading.reads) : reading.reads[i].opens = 0

\* An all-sheets read of two sheets, both parsed from the workbook.
C29_Witness ==
    /\ JustRead("all") /\ reading.outcome = "returned"
    /\ Len(reading.reads) = 2
    /\ \A i \in 1 .. 2 : reading.reads[i].call.thunkCalls = 1

\* ---- C23 ------------------------------------------------------------------
\* C23: the cacher's pre and post pipelines are the processors given to the
\* constructor followed by the registered ones in the order of their registration;
\* pre_process and post_process run their pipeline over the data once, in that
\* order.
C23_PipelinesRunSuppliedThenRegistered ==
    /\ applied.kind # "none" =>
          /\ cacher.pre = applied.supplied_pre \o applied.registered_pre
          /\ cacher.post = applied.supplied_post \o applied.registered_post
    /\ applied.op = "pre_process" =>
          applied.result.data =
              ApplyAll(applied.registered_pre, ApplyAll(applied.supplied_pre, applied.df.data))
    /\ applied.op = "post_process" =>
          applied.result =
              [applied.df EXCEPT !.data = ApplyAll(applied.registered_post,
                                                   ApplyAll(applied.supplied_post, @))]

\* A supplied processor and a registered one that do not commute have run.
C23_Witness ==
    /\ applied.op = "pre_process"
    /\ applied.supplied_pre = <<"inc">> /\ applied.registered_pre = <<"dbl">>
    /\ applied.result.data # ApplyAll(<<"dbl", "inc">>, applied.df.data)

\* ---- C24 ------------------------------------------------------------------
\* The post-process pipelines another Cacher may have.
PostPipelines == UNION {[1 .. k -> Processors] : k \in 0 .. MaxRegistered}

\* C24: the entry a strategy call has written is the one the call would have
\* written under any other post-process pipeline, and a Cacher with any
\* post-process pipeline reads from it its own post-processing of the stored data.
C24_StoredDataIgnoresPostProcess ==
    \A s \in Strategies :
        (JustCalled(s) /\ call.cacheWrites = 1) =>
            \A post \in PostPipelines :
                LET other == [cacher EXCEPT !.post = post]
                IN  /\ read_excel(s, source, call.cacheBefore, other, call.thunk, "ok",
                                  now).file = cache
                    /\ read_cache(other, cache) = ApplyAll(post, cache.data)

\* A cacher with a post-process transform has written an entry.
C24_Witness ==
    /\ JustCalled("CHECK_CACHE") /\ call.cacheWrites = 1
    /\ cacher.post = <<"inc">>
    /\ cache.data = call.fresh

\* ---- C30 ------------------------------------------------------------------
\* C30: a CHECK_CACHE call that missed and populated the entry, followed at once
\* (same source, same cacher) by a CHECK_CACHE call that hits, returns the same
\* dataset both times.
C30_MissThenHitReturnTheSame ==
    [][(/\ JustCalled("CHECK_CACHE") /\ call.hit = "miss"
        /\ call.outcome = "returned" /\ call.cacheWrites = 1
        /\ probe'.op = "strategy" /\ call'.strategy = "CHECK_CACHE"
        /\ call'.hit = "hit") =>
            (call'.outcome = "returned" /\ call'.result = call.result)]_vars

\* ---- C25 ------------------------------------------------------------------
\* C25: when the write of a strategy call or of a collection has failed, the cache
\* entry (the aggregate) is the one the call found: present with its content, or
\* not there.
C25_FailedWriteKeepsEntry ==
    /\ (probe.op = "strategy" /\ call.outcome = "raised"
        /\ call.error \in {"SerializationFailure", "OSError"}) => cache = call.cacheBefore
    /\ (JustCollected /\ collected.stale /\ collected.outcome = "raised") =>
           output = collected.outputBefore

\* ---- C26 ------------------------------------------------------------------
\* C26: within one collect() the cache files of two different entries differ, and
\* no cache file is written by two workers.
C26_WorkersWriteDistinctFiles ==
    /\ \A e, f \in pool.entries :
           worker_cache_file("cache", e, pool.sheet_name) =
               worker_cache_file("cache", f, pool.sheet_name) => e = f
    /\ \A v, w \in pool.writes :
           (v[2] = w[2] /\ v[1] # Coordinator /\ w[1] # Coordinator) => v[1] = w[1]

\* ---- C27 ------------------------------------------------------------------
\* C27: the aggregate's file is written by the coordinating process only, and only
\* once every worker is done.
C27_OnlyCoordinatorWritesAggregate ==
    /\ \A w \in pool.writes : w[2] = pool.output_path => w[1] = Coordinator
    /\ (\E w \in pool.writes : w[1] = Coordinator) =>
           \A e \in pool.entries : pool.pc[e] = "done"

\* ---- C28 ------------------------------------------------------------------
\* C28: between a worker's test of its cache entry and the read or write that
\* follows, the entry is as the test found it.
C28_CheckAndActAreAtomic ==
    \A e \in pool.entries :
        pool.pc[e] = "checked" =>
            pool.stored[worker_cache_file("cache", e, pool.sheet_name)] = pool.seen[e]
====
